---- MODULE Spec2Model ----
(***************************************************************************)
(* META-V2V: the perception relay (src/broker).                            *)
(*                                                                         *)
(* Part 1, "Spec" and "SpecRespin": the thread life cycle of a broker.     *)
(* One caller thread calls spin() and stop(); every spin() that finds the  *)
(* broker not spinning creates a relay thread (_spin), and the relay       *)
(* thread of a LatencyBroker creates a delay worker (_delay_worker).       *)
(* Threads interleave at every read or write of a shared field (spinning,  *)
(* delay_thread, message_queue, a thread's liveness) and at every publish; *)
(* steps that touch only a thread's locals (a sleep that has no deadline   *)
(* to meet, a loop increment) are taken with the shared step before them.  *)
(* What a snapshot contains is the subject of part 2.                      *)
(*                                                                         *)
(* Part 2, "SpecTick": what one relay tick publishes, for every broker     *)
(* variant, as a function of the runners' localizations.                   *)
(***************************************************************************)
EXTENDS Integers, Sequences, FiniteSets, TLC

\* ------------------------------------------------------------------ bounds
\* Spec: spin() calls that start a thread, and relay ticks begun in all
MaxSpins == 1
MaxTicks == 1
\* SpecRespin: the same two budgets, for a broker that is spun again
RespinSpins == 2
RespinTicks == 2
\* runners handed to the broker whose threads are modelled
LifeRunners == 2
\* largest latency (LatencyBroker), in clock steps
MaxLatency == 1
\* SpecTick: runners of the broker whose snapshots are modelled
TickRunners == 3
\* positions lie on a line, at 0..MaxPos vehicle lengths from its origin
MaxPos == 2
\* largest finite radius (RadiusBroker), in vehicle lengths
MaxRadius == 1
\* probabilities and random draws are multiples of 1/ProbScale
ProbScale == 1
\* largest standard deviation (NoiseBroker) and largest noise drawn, in
\* vehicle lengths
MaxNoise == 1
\* largest delay of a DelayBroker, in steps of time
MaxDelay == 1
\* ticks a DelayBroker may begin
DelayTicks == 2
\* the payloads a broadcast can carry
MaxPayload == 2
\* iterations of the loop of run_scenario before the limit is reached
HorizonTicks == 2
\* calls of run_scenario that get past its test
MaxTrials == 2
\* the longest duration of a colour of a traffic signal
MaxDuration == 2
\* the largest offset of a traffic signal
MaxOffset == 2
\* runners of the broker whose queue is followed in time
QueueRunners == 2
\* ticks of the relay while its queue is followed in time
QueueTicks == 4
\* traffic signals of the map
MapSignals == 3
\* the length of a vehicle, the unit of the positions
VehLen == 1

VARIABLES
    kind,            \* the broker class
    runners,         \* self.runners: the nids, in list order
    latency,         \* LatencyBroker.latency
    budget,          \* spins and ticks the run may still begin
    spinning,        \* self.spinning
    t,               \* self.t: the relay thread (0: not set)
    delay_thread,    \* self.delay_thread (0: None)
    message_queue,   \* self.message_queue (FIFO; None is the shutdown signal)
    callerPc,        \* where the calling thread is
    relayPc,         \* where each relay thread is
    relaySeq,        \* header_sequence_num of each relay thread
    relayIdx,        \* index in self.runners of the publish/put loop
    relayOrd,        \* the tick (counted over all relay threads) a relay is in
    workerPc,        \* where each delay worker is
    held,            \* message_data a delay worker has taken from the queue
    slept,           \* time a delay worker has slept on the message it holds
    nSpins,          \* threads created so far
    nTicks,          \* ticks begun so far
    lastPub,         \* per runner nid: the last snapshot the bridge published
    loc,             \* per runner nid: runner.localization
    pds,             \* the pedestrian obstacles of the tick
    radius,          \* RadiusBroker.radius
    p,               \* IntermittenceBroker.p, in units of 1/ProbScale
    sigma,           \* NoiseBroker.sigma1, the deviation of the position noise
    snapshot,        \* the perception message last published, and its receiver
    readPc,          \* where the loop that reads runner.localization is
    readIdx,         \* the runner it is at
    locations,       \* locations (locs in the detector): nid -> message kept
    passed,          \* nids whose localization passed the tag test in this loop
    min_distances,   \* CollisionDetector.min_distances: pair -> minimum
    coReported,      \* pairs whose runners both passed the test in one detect()
    detected,        \* detect() has returned at least once
    delay,           \* DelayBroker.delay
    perception_dict, \* DelayBroker._spin: nid -> the obstacles held for it
    waited,          \* time spent in time.sleep(self.delay) in this tick
    seen,            \* the localizations the tick's snapshots were computed from
    cohort,          \* nids whose held snapshot of this tick was published
    naps,            \* returns of time.sleep(self.delay) in this tick
    bcastIdx,        \* broadcast: index in self.runners of its loop (0: no call)
    bcastData,       \* broadcast: its argument data (0: no call)
    got,             \* per runner nid: what the running broadcast published to it
    factory,         \* BrokerFactory (singleton): mode, param
    srunner,         \* ScenarioRunner: curr_scenario, is_initialized, __runners
    frame,           \* the main thread: where it is in run_scenario, its locals
    bks              \* the brokers createbk made that are referenced or spinning

cfgVars == <<kind, runners, latency, budget>>

lifeVars == <<cfgVars, spinning, t, delay_thread, message_queue, callerPc,
              relayPc, relaySeq, relayIdx, relayOrd, workerPc, held, slept,
              nSpins, nTicks, lastPub>>

\* what a tick reads
tickIn == <<loc, pds, radius, p, sigma>>

tickVars == <<tickIn, snapshot>>

\* everything the threads of the life cycle leave alone
readVars == <<readPc, readIdx, locations, passed>>

detectVars == <<min_distances, coReported, detected>>

delayVars == <<delay, perception_dict, waited, seen, cohort, naps>>

bcastVars == <<bcastIdx, bcastData, got>>

trialVars == <<factory, srunner, frame, bks>>

sideVars == <<delayVars, bcastVars, trialVars>>

otherVars == <<tickVars, readVars, detectVars, sideVars>>

vars == <<lifeVars, otherVars>>

Kinds == {"MessageBroker", "RadiusBroker", "DelayBroker", "LatencyBroker",
          "NoiseBroker", "IntermittenceBroker"}

Threads == DOMAIN relayPc

\* the shutdown signal put by stop(), shaped like a message
None == [none |-> TRUE, nid |-> 0, ord |-> 0, seq |-> 0, run |-> 0, age |-> 0]

\* message_data: (runner_nid, perception_obs, header_sequence_num); ord
\* records the tick that built it, run the relay thread that built it and age
\* the time that has passed, at least, since it was put
Msg(nid, ord, seq, run) ==
    [none |-> FALSE, nid |-> nid, ord |-> ord, seq |-> seq, run |-> run, age |-> 0]

NoPub == [ord |-> 0, seq |-> 0, run |-> 0]

\* runner.localization before any message arrived (None)
NoLoc == [module |-> "none", x |-> 0]

\* a LocalizationEstimate: header.module_name and pose.position; SimControl
\* reports any position, the message sent by send_initial_localization
\* (module_name "MAGGIE") the start position
LocValues == {NoLoc, [module |-> "MAGGIE", x |-> 0]}
                 \cup [module : {"SimControl"}, x : 0..MaxPos]

NoRadius == [inf |-> FALSE, r |-> 0]

\* the radius parameter: a finite number of vehicle lengths, or float('inf')
Radii == [inf : {FALSE}, r : 0..MaxRadius] \cup {[inf |-> TRUE, r |-> 0]}

NoSnapshot == [receiver |-> 0, obs |-> <<>>]

\* a thread object exists, was started and has not finished: Thread.is_alive()
RelayAlive(i) == relayPc[i] \notin {"unborn", "dead"}

WorkerAlive(i) == workerPc[i] \notin {"unborn", "created", "dead"}

\* no loop is reading the localizations
IdleRead ==
    /\ readPc = "idle"
    /\ readIdx = 0
    /\ locations = <<>>
    /\ passed = {}

\* no CollisionDetector was constructed
IdleDetect ==
    /\ min_distances = <<>>
    /\ coReported = {}
    /\ detected = FALSE

\* no DelayBroker tick has computed anything
IdleDelay ==
    /\ delay = 0
    /\ perception_dict = <<>>
    /\ waited = 0
    /\ seen = <<>>
    /\ cohort = {}
    /\ naps = 0

\* broadcast() is not running
IdleBroadcast ==
    /\ bcastIdx = 0
    /\ bcastData = 0
    /\ got = [n \in {runners[i] : i \in 1..Len(runners)} |-> <<>>]

\* BrokerFactory.__init__: self.mode = None, self.param = None
NoMode == "None"

NoParam == [none |-> TRUE, v |-> 0]

Param(v) == [none |-> FALSE, v |-> v]

\* the main thread is in no call
NoFrame ==
    [pc |-> "idle", runner_time |-> 0, idx |-> 0, op |-> "", err |-> "",
     log |-> <<>>, ticks |-> 0, detects |-> 0, produced |-> FALSE, trials |-> 0]

\* BrokerFactory and ScenarioRunner as constructed, no trial run
IdleTrial ==
    /\ factory = [mode |-> NoMode, param |-> NoParam]
    /\ srunner = [curr_scenario |-> <<>>, is_initialized |-> FALSE, runners |-> <<>>]
    /\ frame = NoFrame
    /\ bks = <<>>

\* ------------------------------------------------------------------ caller
InitLife(spins, ticks) ==
    /\ kind \in Kinds
    /\ runners = [i \in 1..LifeRunners |-> i]
    /\ latency \in (IF kind = "LatencyBroker" THEN {0, MaxLatency} ELSE {0})
    /\ budget = [spins |-> spins, ticks |-> ticks]
    /\ spinning = FALSE
    /\ t = 0
    /\ delay_thread = 0
    /\ message_queue = <<>>
    /\ callerPc = "idle"
    /\ relayPc = [i \in 1..spins |-> "unborn"]
    /\ relaySeq = [i \in 1..spins |-> 0]
    /\ relayIdx = [i \in 1..spins |-> 0]
    /\ relayOrd = [i \in 1..spins |-> 0]
    /\ workerPc = [i \in 1..spins |-> "unborn"]
    /\ held = [i \in 1..spins |-> None]
    /\ slept = [i \in 1..spins |-> 0]
    /\ nSpins = 0
    /\ nTicks = 0
    /\ lastPub = [r \in 1..LifeRunners |-> NoPub]
    /\ loc = [r \in 1..LifeRunners |-> NoLoc]
    /\ pds = <<>>
    /\ radius = NoRadius
    /\ p = 0
    /\ sigma = 0
    /\ snapshot = NoSnapshot
    /\ IdleRead
    /\ IdleDetect
    /\ IdleDelay
    /\ IdleBroadcast
    /\ IdleTrial

\* spin(): return when spinning, else self.t = Thread(target=self._spin),
\* self.spinning = True, self.t.start()
Spin ==
    /\ callerPc = "idle"
    /\ ~spinning
    /\ nSpins < budget.spins
    /\ nSpins' = nSpins + 1
    /\ t' = nSpins + 1
    /\ spinning' = TRUE
    /\ relayPc' = [relayPc EXCEPT ![nSpins + 1] =
                     IF kind = "LatencyBroker" THEN "r_begin" ELSE "r_loop"]
    /\ UNCHANGED <<cfgVars, otherVars, delay_thread, message_queue, callerPc, relaySeq,
                   relayIdx, relayOrd, workerPc, held, slept, nTicks, lastPub>>

\* the caller enters spin() on a spinning broker, or stop():
\* logger.debug(...), then the test of self.spinning
SpinCall ==
    /\ callerPc = "idle"
    /\ spinning
    /\ callerPc' = "spin"
    /\ UNCHANGED <<cfgVars, otherVars, spinning, t, delay_thread, message_queue, relayPc,
                   relaySeq, relayIdx, relayOrd, workerPc, held, slept,
                   nSpins, nTicks, lastPub>>

\* spin(): if self.spinning: return
SpinReturn ==
    /\ callerPc = "spin"
    /\ callerPc' = "idle"
    /\ UNCHANGED <<cfgVars, otherVars, spinning, t, delay_thread, message_queue, relayPc,
                   relaySeq, relayIdx, relayOrd, workerPc, held, slept,
                   nSpins, nTicks, lastPub>>

StopCall ==
    /\ callerPc = "idle"
    /\ callerPc' = "stop"
    /\ UNCHANGED <<cfgVars, otherVars, spinning, t, delay_thread, message_queue, relayPc,
                   relaySeq, relayIdx, relayOrd, workerPc, held, slept,
                   nSpins, nTicks, lastPub>>

\* stop() without its test of self.spinning
StopBodyUnguarded ==
    /\ callerPc = "stop"
    /\ spinning' = FALSE
    /\ callerPc' = IF kind = "LatencyBroker" THEN "stop_worker" ELSE "stop_join_t"
    /\ UNCHANGED <<cfgVars, otherVars, t, delay_thread, message_queue, relayPc, relaySeq,
                   relayIdx, relayOrd, workerPc, held, slept, nSpins, nTicks,
                   lastPub>>

\* stop(): return when not spinning, else clear the flag
StopBody ==
    /\ callerPc = "stop"
    /\ IF ~spinning
       THEN /\ callerPc' = "idle"
            /\ UNCHANGED spinning
       ELSE /\ spinning' = FALSE
            /\ callerPc' = IF kind = "LatencyBroker" THEN "stop_worker" ELSE "stop_join_t"
    /\ UNCHANGED <<cfgVars, otherVars, t, delay_thread, message_queue, relayPc, relaySeq,
                   relayIdx, relayOrd, workerPc, held, slept, nSpins, nTicks,
                   lastPub>>

\* LatencyBroker.stop(): if self.delay_thread and self.delay_thread.is_alive():
\*                           self.message_queue.put(None)
StopSignalWorker ==
    /\ callerPc = "stop_worker"
    /\ IF delay_thread # 0 /\ WorkerAlive(delay_thread)
       THEN /\ message_queue' = Append(message_queue, None)
            /\ callerPc' = "stop_join_worker"
       ELSE /\ callerPc' = "stop_join_t"
            /\ UNCHANGED message_queue
    /\ UNCHANGED <<cfgVars, otherVars, spinning, t, delay_thread, relayPc, relaySeq,
                   relayIdx, relayOrd, workerPc, held, slept, nSpins, nTicks,
                   lastPub>>

\* LatencyBroker.stop(): self.delay_thread.join()
StopJoinWorker ==
    /\ callerPc = "stop_join_worker"
    /\ ~WorkerAlive(delay_thread)
    /\ callerPc' = "stop_join_t"
    /\ UNCHANGED <<cfgVars, otherVars, spinning, t, delay_thread, message_queue, relayPc,
                   relaySeq, relayIdx, relayOrd, workerPc, held, slept,
                   nSpins, nTicks, lastPub>>

\* stop() that returns without self.t.join()
StopJoinRelayNoWait ==
    /\ callerPc = "stop_join_t"
    /\ callerPc' = "idle"
    /\ UNCHANGED <<cfgVars, otherVars, spinning, t, delay_thread, message_queue, relayPc,
                   relaySeq, relayIdx, relayOrd, workerPc, held, slept,
                   nSpins, nTicks, lastPub>>

\* stop(): self.t.join()   (LatencyBroker: if self.t and self.t.is_alive())
StopJoinRelay ==
    /\ callerPc = "stop_join_t"
    /\ ~RelayAlive(t)
    /\ callerPc' = "idle"
    /\ UNCHANGED <<cfgVars, otherVars, spinning, t, delay_thread, message_queue, relayPc,
                   relaySeq, relayIdx, relayOrd, workerPc, held, slept,
                   nSpins, nTicks, lastPub>>

\* ------------------------------------------------------------ relay thread
\* LatencyBroker._spin: self.delay_thread = Thread(target=self._delay_worker)
RelayMakeWorker(i) ==
    /\ relayPc[i] = "r_begin"
    /\ delay_thread' = i
    /\ workerPc' = [workerPc EXCEPT ![i] = "created"]
    /\ relayPc' = [relayPc EXCEPT ![i] = "r_startw"]
    /\ UNCHANGED <<cfgVars, otherVars, spinning, t, message_queue, callerPc, relaySeq,
                   relayIdx, relayOrd, held, slept, nSpins, nTicks, lastPub>>

\* LatencyBroker._spin: self.delay_thread.start()
RelayStartWorker(i) ==
    /\ relayPc[i] = "r_startw"
    /\ workerPc' = [workerPc EXCEPT ![i] = "w_loop"]
    /\ relayPc' = [relayPc EXCEPT ![i] = "r_loop"]
    /\ UNCHANGED <<cfgVars, otherVars, spinning, t, delay_thread, message_queue, callerPc,
                   relaySeq, relayIdx, relayOrd, held, slept, nSpins, nTicks,
                   lastPub>>

\* where a tick goes after its snapshots are computed
AfterCompute ==
    CASE kind = "LatencyBroker" -> "r_put"
      [] kind = "DelayBroker" -> "r_delay"
      [] OTHER -> "r_pub"

\* a loop that never looks at the flag
LoopTestAlways == TRUE

\* the test of a thread's loop: while self.spinning
LoopTest == spinning

\* _spin: while self.spinning: ... (a tick begins: localizations are read and
\* the snapshots computed) or the thread ends
RelayLoop(i) ==
    /\ relayPc[i] = "r_loop"
    /\ IF LoopTest
       THEN /\ nTicks < budget.ticks
            /\ nTicks' = nTicks + 1
            /\ relayOrd' = [relayOrd EXCEPT ![i] = nTicks + 1]
            /\ relayIdx' = [relayIdx EXCEPT ![i] = 1]
            /\ relayPc' = [relayPc EXCEPT ![i] = AfterCompute]
            /\ UNCHANGED relaySeq
       ELSE /\ relayPc' = [relayPc EXCEPT ![i] = "dead"]
            /\ relaySeq' = [relaySeq EXCEPT ![i] = 0]
            /\ UNCHANGED <<nTicks, relayOrd, relayIdx>>
    /\ UNCHANGED <<cfgVars, otherVars, spinning, t, delay_thread, message_queue, callerPc,
                   workerPc, held, slept, nSpins, lastPub>>

\* DelayBroker._spin: time.sleep(self.delay)
RelayDelay(i) ==
    /\ relayPc[i] = "r_delay"
    /\ relayPc' = [relayPc EXCEPT ![i] = "r_pub"]
    /\ UNCHANGED <<cfgVars, otherVars, spinning, t, delay_thread, message_queue, callerPc,
                   relaySeq, relayIdx, relayOrd, workerPc, held, slept, nSpins,
                   nTicks, lastPub>>

\* the for loop over self.runners moves on; after the last runner:
\* header_sequence_num += 1, time.sleep(1/PERCEPTION_FREQUENCY), and the
\* thread is back at the test of its loop
RelayAdvance(i) ==
    IF relayIdx[i] = Len(runners)
    THEN /\ relayPc' = [relayPc EXCEPT ![i] = "r_loop"]
         /\ relaySeq' = [relaySeq EXCEPT ![i] = @ + 1]
         /\ relayIdx' = [relayIdx EXCEPT ![i] = 0]
         /\ relayOrd' = [relayOrd EXCEPT ![i] = 0]
    ELSE /\ relayIdx' = [relayIdx EXCEPT ![i] = @ + 1]
         /\ UNCHANGED <<relayPc, relaySeq, relayOrd>>

\* _spin: runner.container.bridge.publish(Topics.Obstacles, ...) for the next
\* runner; publish may raise, and nothing in _spin catches it
RelayPublish(i) ==
    /\ relayPc[i] = "r_pub"
    /\ \E ok \in BOOLEAN :
         IF ok
         THEN /\ lastPub' = [lastPub EXCEPT ![runners[relayIdx[i]]] =
                               [ord |-> relayOrd[i], seq |-> relaySeq[i], run |-> i]]
              /\ RelayAdvance(i)
         ELSE /\ relayPc' = [relayPc EXCEPT ![i] = "dead"]
              /\ relaySeq' = [relaySeq EXCEPT ![i] = 0]
              /\ relayIdx' = [relayIdx EXCEPT ![i] = 0]
              /\ relayOrd' = [relayOrd EXCEPT ![i] = 0]
              /\ UNCHANGED lastPub
    /\ UNCHANGED <<cfgVars, otherVars, spinning, t, delay_thread, message_queue, callerPc,
                   workerPc, held, slept, nSpins, nTicks>>

\* LatencyBroker._spin: self.message_queue.put((runner.nid, perception_obs,
\* header_sequence_num)) for the next runner
RelayPut(i) ==
    /\ relayPc[i] = "r_put"
    /\ message_queue' = Append(message_queue,
                               Msg(runners[relayIdx[i]], relayOrd[i], relaySeq[i], i))
    /\ RelayAdvance(i)
    /\ UNCHANGED <<cfgVars, otherVars, spinning, t, delay_thread, callerPc, workerPc,
                   held, slept, nSpins, nTicks, lastPub>>

\* ------------------------------------------------------------ delay worker
\* _delay_worker: while self.spinning:
WorkerLoop(i) ==
    /\ workerPc[i] = "w_loop"
    /\ workerPc' = [workerPc EXCEPT ![i] = IF LoopTest THEN "w_get" ELSE "dead"]
    /\ UNCHANGED <<cfgVars, otherVars, spinning, t, delay_thread, message_queue, callerPc,
                   relayPc, relaySeq, relayIdx, relayOrd, held, slept, nSpins,
                   nTicks, lastPub>>

\* _delay_worker: message_data = self.message_queue.get(timeout=0.1);
\* None ends the thread, a message is kept and the sleep begins
WorkerGet(i) ==
    /\ workerPc[i] = "w_get"
    /\ message_queue # <<>>
    /\ message_queue' = Tail(message_queue)
    /\ IF Head(message_queue).none
       THEN /\ workerPc' = [workerPc EXCEPT ![i] = "dead"]
            /\ UNCHANGED held
       ELSE /\ workerPc' = [workerPc EXCEPT ![i] = "w_sleep"]
            /\ held' = [held EXCEPT ![i] = Head(message_queue)]
    /\ UNCHANGED <<cfgVars, otherVars, spinning, t, delay_thread, callerPc, relayPc,
                   relaySeq, relayIdx, relayOrd, slept, nSpins, nTicks, lastPub>>

\* _delay_worker: the get times out on an empty queue: except queue.Empty: continue
WorkerTimeout(i) ==
    /\ workerPc[i] = "w_get"
    /\ message_queue = <<>>
    /\ workerPc' = [workerPc EXCEPT ![i] = "w_loop"]
    /\ UNCHANGED <<cfgVars, otherVars, spinning, t, delay_thread, message_queue, callerPc,
                   relayPc, relaySeq, relayIdx, relayOrd, held, slept, nSpins,
                   nTicks, lastPub>>

\* the time _delay_worker sleeps on a message: time.sleep(self.latency)
SleepTime == latency

\* _delay_worker: time.sleep(self.latency) has returned and the runner with
\* nid runner_nid gets the message published; an exception is caught and
\* logged, and the loop goes on
WorkerPublish(i) ==
    /\ workerPc[i] = "w_sleep"
    /\ slept[i] >= SleepTime
    /\ \E ok \in BOOLEAN :
         IF ok
         THEN lastPub' = [lastPub EXCEPT ![held[i].nid] =
                            [ord |-> held[i].ord, seq |-> held[i].seq,
                             run |-> held[i].run]]
         ELSE UNCHANGED lastPub
    /\ held' = [held EXCEPT ![i] = None]
    /\ slept' = [slept EXCEPT ![i] = 0]
    /\ workerPc' = [workerPc EXCEPT ![i] = "w_loop"]
    /\ UNCHANGED <<cfgVars, otherVars, spinning, t, delay_thread, message_queue, callerPc,
                   relayPc, relaySeq, relayIdx, relayOrd, nSpins, nTicks>>

\* ------------------------------------------------------------------- clock
Older(m) == IF m.none \/ m.age >= latency THEN m ELSE [m EXCEPT !.age = @ + 1]

\* one step of time, while some delay worker sleeps: every message put and
\* not yet published is one step older, and every sleeping worker has slept
\* one step more (both counted up to the latency, beyond which they are not
\* compared); time that passes while no worker sleeps changes nothing a
\* thread reads
TimePasses ==
    /\ \E i \in Threads : workerPc[i] = "w_sleep" /\ slept[i] < latency
    /\ message_queue' = [k \in 1..Len(message_queue) |-> Older(message_queue[k])]
    /\ held' = [i \in Threads |-> Older(held[i])]
    /\ slept' = [i \in Threads |->
                   IF workerPc[i] = "w_sleep" /\ slept[i] < latency
                   THEN slept[i] + 1 ELSE slept[i]]
    /\ UNCHANGED <<cfgVars, otherVars, spinning, t, delay_thread, callerPc, relayPc,
                   relaySeq, relayIdx, relayOrd, workerPc, nSpins, nTicks,
                   lastPub>>

\* ------------------------------------------------------------ specification
RelayStep(i) ==
    \/ RelayMakeWorker(i)
    \/ RelayStartWorker(i)
    \/ RelayLoop(i)
    \/ RelayDelay(i)
    \/ RelayPublish(i)
    \/ RelayPut(i)

WorkerStep(i) ==
    \/ WorkerLoop(i)
    \/ WorkerGet(i)
    \/ WorkerTimeout(i)
    \/ WorkerPublish(i)

Next ==
    \/ Spin
    \/ SpinCall
    \/ SpinReturn
    \/ StopCall
    \/ StopBody
    \/ StopSignalWorker
    \/ StopJoinWorker
    \/ StopJoinRelay
    \/ \E i \in Threads : RelayMakeWorker(i)
    \/ \E i \in Threads : RelayStartWorker(i)
    \/ \E i \in Threads : RelayLoop(i)
    \/ \E i \in Threads : RelayDelay(i)
    \/ \E i \in Threads : RelayPublish(i)
    \/ \E i \in Threads : RelayPut(i)
    \/ \E i \in Threads : WorkerLoop(i)
    \/ \E i \in Threads : WorkerGet(i)
    \/ \E i \in Threads : WorkerTimeout(i)
    \/ \E i \in Threads : WorkerPublish(i)
    \/ TimePasses

Init == InitLife(MaxSpins, MaxTicks)

Spec == Init /\ [][Next]_vars

SpecRespin == InitLife(RespinSpins, RespinTicks) /\ [][Next]_vars

\* every started thread is scheduled again and again, time goes on, and a
\* caller inside stop() goes on with it; when the caller calls is its choice
FairSpec ==
    /\ Spec
    /\ \A i \in 1..MaxSpins : WF_vars(RelayStep(i)) /\ WF_vars(WorkerStep(i))
    /\ WF_vars(TimePasses)
    /\ WF_vars(StopBody \/ StopSignalWorker \/ StopJoinWorker \/ StopJoinRelay)

\* ------------------------------------------------------- one tick's content
\* PedestrianManager.get_pedestrians(curr_time): no pedestrian, or one
Pedestrian == [id |-> 0, x |-> 0, ped |-> TRUE]

PedChoices == {<<>>, <<Pedestrian>>}

\* loc and loc.header.module_name == 'SimControl'
Authoritative(n) == loc[n] # NoLoc /\ loc[n].module = "SimControl"

\* the keys of locations (and of obs and obs_poly), in insertion order:
\* for runner in self.runners: if loc and ...: locations[runner.nid] = ...
LocationKeys == SelectSeq(runners, LAMBDA n : Authoritative(n))

InKeys(n) == \E k \in 1..Len(LocationKeys) : LocationKeys[k] = n

\* obs[k] = localization_to_obstacle(k, locations[k])
LocalizationToObstacle(n, l) == [id |-> n, x |-> l.x, ped |-> FALSE]

Obs(n) == LocalizationToObstacle(n, loc[n])

\* obs_poly[k] = obstacle_to_polygon(obs[k]): the footprint, one vehicle
\* length long, from the obstacle's position (in half vehicle lengths)
ObstacleToPolygon(o) == [lo |-> 2 * o.x, hi |-> 2 * o.x + 2 * VehLen]

\* polygon.distance(other): the smallest distance between two footprints, in
\* half vehicle lengths; 0 when they touch or overlap
PolyDistance(a, b) ==
    IF a.hi < b.lo THEN b.lo - a.hi
    ELSE IF b.hi < a.lo THEN a.lo - b.hi
    ELSE 0

\* dist <= self.radius, the radius being a float (possibly inf)
WithinRadius(d, r) == r.inf \/ d <= 2 * r.r

MapObs(keys) == [j \in 1..Len(keys) |-> Obs(keys[j])]

\* the list without its test x != runner.nid
MessagePerceptionWithEgo(k) == MapObs(LocationKeys) \o pds

\* MessageBroker._spin: [obs[x] for x in obs if x != runner.nid] + pds
MessagePerception(k) ==
    MapObs(SelectSeq(LocationKeys, LAMBDA x : x # runners[k])) \o pds

\* the filter with dist < self.radius
RadiusPerceptionStrict(k) ==
    MapObs(SelectSeq(LocationKeys,
             LAMBDA i : /\ i # runners[k]
                        /\ InKeys(runners[k]) /\ InKeys(i)
                        /\ \/ radius.inf
                           \/ PolyDistance(ObstacleToPolygon(Obs(runners[k])),
                                           ObstacleToPolygon(Obs(i))) < 2 * radius.r)) \o pds

\* RadiusBroker._spin: the obstacles of the other runners within the radius
RadiusPerception(k) ==
    MapObs(SelectSeq(LocationKeys,
             LAMBDA i : /\ i # runners[k]
                        /\ InKeys(runners[k]) /\ InKeys(i)
                        /\ WithinRadius(
                             PolyDistance(ObstacleToPolygon(Obs(runners[k])),
                                          ObstacleToPolygon(Obs(i))),
                             radius))) \o pds

\* DelayBroker._spin and LatencyBroker._spin: the obstacles of the other
\* runners, for a receiver that is itself in obs_poly
HeldPerception(k) ==
    MapObs(SelectSeq(LocationKeys,
             LAMBDA i : i # runners[k] /\ InKeys(runners[k]) /\ InKeys(i))) \o pds

\* the test with random.random() <= self.p
DroppedInclusive(draw) == draw <= p

\* IntermittenceBroker._spin: random.random() < self.p drops the sender
Dropped(draw) == draw < p

\* the list that loses the pedestrians with the last sender it drops
IntermittencePerceptionPedsDropped(k, draws) ==
    LET senders == SelectSeq([j \in 1..Len(runners) |-> j],
                             LAMBDA j : j # k /\ ~(draws[j] < p))
        receive_list == [j \in 1..Len(senders) |-> runners[senders[j]]]
    IN  MapObs(SelectSeq(receive_list, LAMBDA x : InKeys(x)))
            \o (IF senders = <<>> THEN <<>> ELSE pds)

\* IntermittenceBroker._spin: receive_list[receiver.nid], the senders kept
\* for receiver k under the draws, then obs[x] for those that have one
IntermittencePerception(k, draws) ==
    LET senders == SelectSeq([j \in 1..Len(runners) |-> j],
                             LAMBDA j : j # k /\ ~Dropped(draws[j]))
        receive_list == [j \in 1..Len(senders) |-> runners[senders[j]]]
    IN  MapObs(SelectSeq(receive_list, LAMBDA x : InKeys(x))) \o pds

\* the noise is drawn with deviation 1, whatever the deviation given
NoiseDrawsUnit == {0 - 1, 0, 1}

\* random.gauss(mu=0.0, sigma=std_dev): no noise for deviation 0, else any
\* value (here: one deviation below the mean, the mean, one above)
NoiseDraws == {0 - sigma, 0, sigma}

\* NoiseBroker.noise_localization_to_obstacle: the position with noise added
\* (gaussian_noise: value + scale * random.gauss(...), scale 1.0)
NoiseLocalizationToObstacle(n, l, e) == [id |-> n, x |-> l.x + e, ped |-> FALSE]

\* NoiseBroker._spin: [obs[x] for x in obs if x != runner.nid] + pds, obs[x]
\* built once per tick with the noise drawn for x
NoisePerception(k, noise) ==
    LET keys == SelectSeq(LocationKeys, LAMBDA x : x # runners[k])
    IN  [j \in 1..Len(keys) |->
            NoiseLocalizationToObstacle(keys[j], loc[keys[j]], noise[keys[j]])] \o pds

IdleLife(spins) ==
    /\ latency = 0
    /\ budget = [spins |-> spins, ticks |-> 0]
    /\ spinning = FALSE
    /\ t = 0
    /\ delay_thread = 0
    /\ message_queue = <<>>
    /\ callerPc = "idle"
    /\ relayPc = [i \in 1..spins |-> "unborn"]
    /\ relaySeq = [i \in 1..spins |-> 0]
    /\ relayIdx = [i \in 1..spins |-> 0]
    /\ relayOrd = [i \in 1..spins |-> 0]
    /\ workerPc = [i \in 1..spins |-> "unborn"]
    /\ held = [i \in 1..spins |-> None]
    /\ slept = [i \in 1..spins |-> 0]
    /\ nSpins = 0
    /\ nTicks = 0

\* the states a tick can find: any localization for every runner, any
\* pedestrians, any parameter of the broker
InitTick ==
    /\ kind \in Kinds
    /\ runners = [i \in 1..TickRunners |-> i]
    /\ IdleLife(0)
    /\ lastPub = [r \in 1..TickRunners |-> NoPub]
    /\ loc \in [1..TickRunners -> LocValues]
    /\ pds \in PedChoices
    /\ radius \in (IF kind = "RadiusBroker" THEN Radii ELSE {NoRadius})
    /\ p \in (IF kind = "IntermittenceBroker" THEN 0..ProbScale ELSE {0})
    /\ sigma \in (IF kind = "NoiseBroker" THEN 0..MaxNoise ELSE {0})
    /\ snapshot = NoSnapshot
    /\ IdleRead
    /\ IdleDetect
    /\ IdleDelay
    /\ IdleBroadcast
    /\ IdleTrial

\* the relay has published nothing yet: a tick's snapshots depend on nothing
\* an earlier tick left, and a behaviour here is one publish of one tick
FirstPublish == snapshot = NoSnapshot

\* the perception message of receiver k is built and published
TickMessage(k) ==
    /\ FirstPublish
    /\ kind = "MessageBroker"
    /\ snapshot' = [receiver |-> runners[k], obs |-> MessagePerception(k)]
    /\ UNCHANGED <<lifeVars, tickIn, readVars, detectVars, sideVars>>

TickRadius(k) ==
    /\ FirstPublish
    /\ kind = "RadiusBroker"
    /\ snapshot' = [receiver |-> runners[k], obs |-> RadiusPerception(k)]
    /\ UNCHANGED <<lifeVars, tickIn, readVars, detectVars, sideVars>>

TickHeld(k) ==
    /\ FirstPublish
    /\ kind \in {"DelayBroker", "LatencyBroker"}
    /\ snapshot' = [receiver |-> runners[k], obs |-> HeldPerception(k)]
    /\ UNCHANGED <<lifeVars, tickIn, readVars, detectVars, sideVars>>

TickIntermittence(k) ==
    /\ FirstPublish
    /\ kind = "IntermittenceBroker"
    /\ \E draws \in [(1..Len(runners)) \ {k} -> 0..(ProbScale - 1)] :
         snapshot' = [receiver |-> runners[k],
                      obs |-> IntermittencePerception(k, draws)]
    /\ UNCHANGED <<lifeVars, tickIn, readVars, detectVars, sideVars>>

TickNoise(k) ==
    /\ FirstPublish
    /\ kind = "NoiseBroker"
    /\ \E noise \in [{n \in DOMAIN loc : n # runners[k] /\ Authoritative(n)} -> NoiseDraws] :
         snapshot' = [receiver |-> runners[k], obs |-> NoisePerception(k, noise)]
    /\ UNCHANGED <<lifeVars, tickIn, readVars, detectVars, sideVars>>

SpecTick ==
    InitTick /\ [][
        \/ \E k \in 1..Len(runners) : TickMessage(k)
        \/ \E k \in 1..Len(runners) : TickRadius(k)
        \/ \E k \in 1..Len(runners) : TickHeld(k)
        \/ \E k \in 1..Len(runners) : TickIntermittence(k)
        \/ \E k \in 1..Len(runners) : TickNoise(k)
    ]_vars

\* ------------------------------------------- reading the localizations
\* the place of runner n in self.runners
IndexOf(n) == CHOOSE k \in 1..Len(runners) : runners[k] = n

\* the subscriber callback lcb: self.localization = data, for any message of
\* the localization channel, at any time
Lcb(n, m) ==
    /\ loc' = [loc EXCEPT ![n] = m]
    /\ UNCHANGED <<lifeVars, pds, radius, p, sigma, snapshot, readVars, detectVars, sideVars>>

\* the loop moves on to the next runner, or ends
ReadAdvance ==
    IF readIdx = Len(runners)
    THEN readPc' = "read" /\ readIdx' = 0
    ELSE readPc' = "check" /\ readIdx' = readIdx + 1

\* locations = dict(); for runner in self.runners:
ReadBegin ==
    /\ readPc = "idle"
    /\ readPc' = "check"
    /\ readIdx' = 1
    /\ locations' = [n \in {} |-> NoLoc]
    /\ passed' = {}
    /\ UNCHANGED <<lifeVars, tickVars, detectVars, sideVars>>

\* loc = runner.localization; if loc and loc.header.module_name == 'SimControl':
ReadCheck ==
    /\ readPc = "check"
    /\ IF Authoritative(runners[readIdx])
       THEN /\ readPc' = "store"
            /\ passed' = passed \cup {runners[readIdx]}
            /\ UNCHANGED readIdx
       ELSE /\ ReadAdvance
            /\ UNCHANGED passed
    /\ UNCHANGED <<lifeVars, tickVars, locations, detectVars, sideVars>>

\* locations[runner.nid] = runner.localization: the field is read again
ReadStore ==
    /\ readPc = "store"
    /\ locations' = [n \in DOMAIN locations \cup {runners[readIdx]} |->
                        IF n = runners[readIdx] THEN loc[n] ELSE locations[n]]
    /\ ReadAdvance
    /\ UNCHANGED <<lifeVars, tickVars, passed, detectVars, sideVars>>

\* MessageBroker._spin: obs[k] = localization_to_obstacle(k, locations[k]) for
\* every k in locations, and the message of receiver k is built and published
RelayConvert(k) ==
    /\ readPc = "read"
    /\ LET keys == SelectSeq(runners, LAMBDA x : x \in DOMAIN locations /\ x # runners[k])
       IN  snapshot' = [receiver |-> runners[k],
                        obs |-> [j \in 1..Len(keys) |->
                                   LocalizationToObstacle(keys[j], locations[keys[j]])]
                                \o pds]
    /\ readPc' = "idle"
    /\ UNCHANGED <<lifeVars, tickIn, readIdx, locations, passed, detectVars, sideVars>>

\* a broker's relay thread reads while the callbacks store messages
InitRead ==
    /\ kind = "MessageBroker"
    /\ runners = [i \in 1..LifeRunners |-> i]
    /\ IdleLife(0)
    /\ lastPub = [r \in 1..LifeRunners |-> NoPub]
    /\ loc = [r \in 1..LifeRunners |-> NoLoc]
    /\ pds \in PedChoices
    /\ radius = NoRadius
    /\ p = 0
    /\ sigma = 0
    /\ snapshot = NoSnapshot
    /\ IdleRead
    /\ IdleDetect
    /\ IdleDelay
    /\ IdleBroadcast
    /\ IdleTrial

SpecRead ==
    InitRead /\ [][
        \/ \E n \in DOMAIN loc, m \in LocValues \ {NoLoc} : Lcb(n, m)
        \/ ReadBegin
        \/ ReadCheck
        \/ ReadStore
        \/ \E k \in 1..Len(runners) : RelayConvert(k)
    ]_vars

\* ------------------------------------------------------ collision detector
\* float('inf'), and a distance in half vehicle lengths
Inf == [inf |-> TRUE, d |-> 0]

Num(d) == [inf |-> FALSE, d |-> d]

\* for i in range(len(runners)): for j in range(i + 1, len(runners)): the
\* keys (i, j), counted here from 1
Pairs == {pr \in (1..Len(runners)) \X (1..Len(runners)) : pr[1] < pr[2]}

\* the map with a key for (i, j) and for (j, i)
InitMinDistancesOrdered ==
    [pr \in {q \in (1..Len(runners)) \X (1..Len(runners)) : q[1] # q[2]} |-> Inf]

\* the map seeded with 0
InitMinDistancesZero == [pr \in Pairs |-> Num(0)]

\* CollisionDetector.__init__: self.min_distances[(i, j)] = float('inf')
InitMinDistances == [pr \in Pairs |-> Inf]

\* the footprint of runner n as the broker last relayed it, when it relayed one
PolyRelayed(n) ==
    LET hits == {j \in 1..Len(snapshot.obs) :
                    snapshot.obs[j].id = n /\ ~snapshot.obs[j].ped}
    IN  IF hits = {}
        THEN ObstacleToPolygon(LocalizationToObstacle(n, locations[n]))
        ELSE ObstacleToPolygon(snapshot.obs[CHOOSE j \in hits : TRUE])

\* get_polygon_dist: obs_poly[k] for k in locs
Poly(n) == ObstacleToPolygon(LocalizationToObstacle(n, locations[n]))

\* get_polygon_dist: poly_dist[(i, j)] for the pairs with both nids in obs_poly
GetPolygonDist ==
    [pr \in {q \in Pairs : /\ runners[q[1]] \in DOMAIN locations
                           /\ runners[q[2]] \in DOMAIN locations} |->
        PolyDistance(Poly(runners[pr[1]]), Poly(runners[pr[2]]))]

\* the computed distance replaces the stored one
UpdateOverwrite(stored, computed) == Num(computed)

\* the smaller one is stored, but a stored 0 counts as no value yet
UpdateMinOfPositive(stored, computed) ==
    IF stored.inf \/ stored.d = 0 \/ computed < stored.d THEN Num(computed) ELSE stored

\* detect: min(self.min_distances[pair], cur_dist[pair])
UpdateMin(stored, computed) ==
    IF stored.inf \/ computed < stored.d THEN Num(computed) ELSE stored

\* a pair that is not in cur_dist starts again from infinity
UntouchedReset(stored) == Inf

\* detect: for pair in cur_dist visits no other pair
Untouched(stored) == stored

\* detect(): cur_dist = self.get_polygon_dist() has read the localizations;
\* update min_distances and return (the locals of get_polygon_dist are gone)
DetectUpdate ==
    /\ readPc = "read"
    /\ LET cur_dist == GetPolygonDist
       IN  min_distances' =
             [pr \in DOMAIN min_distances \cup DOMAIN cur_dist |->
                 IF pr \in DOMAIN cur_dist
                 THEN IF pr \notin DOMAIN min_distances
                      THEN Num(cur_dist[pr])
                      ELSE UpdateMin(min_distances[pr], cur_dist[pr])
                 ELSE Untouched(min_distances[pr])]
    /\ coReported' = coReported \cup
                        {pr \in Pairs : runners[pr[1]] \in passed /\ runners[pr[2]] \in passed}
    /\ detected' = TRUE
    /\ readPc' = "idle"
    /\ locations' = [n \in {} |-> NoLoc]
    /\ passed' = {}
    /\ UNCHANGED <<lifeVars, tickVars, readIdx, sideVars>>

\* run_scenario: the detector is constructed for the trial's runners, whose
\* callbacks are registered
InitDetect ==
    /\ kind = "MessageBroker"
    /\ runners = [i \in 1..LifeRunners |-> i]
    /\ IdleLife(0)
    /\ lastPub = [r \in 1..LifeRunners |-> NoPub]
    /\ loc = [r \in 1..LifeRunners |-> NoLoc]
    /\ pds = <<>>
    /\ radius = NoRadius
    /\ p = 0
    /\ sigma = 0
    /\ snapshot = NoSnapshot
    /\ IdleRead
    /\ IdleDelay
    /\ IdleBroadcast
    /\ IdleTrial
    /\ min_distances = InitMinDistances
    /\ coReported = {}
    /\ detected = FALSE

\* get_min_distances(): return self.min_distances
GetMinDistances == min_distances

SpecDetect ==
    InitDetect /\ [][
        \/ \E n \in DOMAIN loc, m \in LocValues \ {NoLoc} :
             \* the loop has not read runner n yet
             /\ readPc = "idle" \/ (readPc \in {"check", "store"} /\ IndexOf(n) >= readIdx)
             /\ Lcb(n, m)
        \/ ReadBegin
        \/ ReadCheck
        \/ ReadStore
        \/ DetectUpdate
    ]_vars

\* ------------------------------------------- the detector beside a broker
\* run_scenario: the broker made by the factory, of any kind and parameter,
\* relays while the detector of the same runners is called
InitMonitor ==
    /\ kind \in Kinds
    /\ runners = [i \in 1..LifeRunners |-> i]
    /\ IdleLife(0)
    /\ lastPub = [r \in 1..LifeRunners |-> NoPub]
    /\ loc = [r \in 1..LifeRunners |-> NoLoc]
    /\ pds = <<>>
    /\ radius \in (IF kind = "RadiusBroker" THEN Radii ELSE {NoRadius})
    /\ p \in (IF kind = "IntermittenceBroker" THEN 0..ProbScale ELSE {0})
    /\ sigma \in (IF kind = "NoiseBroker" THEN 0..MaxNoise ELSE {0})
    /\ snapshot = NoSnapshot
    /\ IdleRead
    /\ IdleDelay
    /\ IdleBroadcast
    /\ IdleTrial
    /\ min_distances = InitMinDistances
    /\ coReported = {}
    /\ detected = FALSE

\* what the relay thread publishes and what lcb stores while a call of
\* detect() runs is in NextDetect and NextRead; here both are taken between
\* the calls
SpecMonitor ==
    InitMonitor /\ [][
        \/ \E n \in DOMAIN loc,
              m \in {l \in LocValues : l.module = "SimControl" /\ l.x \in {0, MaxPos}} :
             readPc = "idle" /\ Lcb(n, m)
        \/ \E k \in 1..Len(runners) : readPc = "idle" /\ TickMessage(k)
        \/ \E k \in 1..Len(runners) : readPc = "idle" /\ TickRadius(k)
        \/ \E k \in 1..Len(runners) : readPc = "idle" /\ TickHeld(k)
        \/ \E k \in 1..Len(runners) : readPc = "idle" /\ TickIntermittence(k)
        \/ \E k \in 1..Len(runners) : readPc = "idle" /\ TickNoise(k)
        \/ ReadBegin
        \/ ReadCheck
        \/ ReadStore
        \/ DetectUpdate
    ]_vars

\* ------------------------------------------------------------- DelayBroker
\* the tick's snapshot is computed anew when it is published
DelayContentFresh(k) == HeldPerception(k)

\* DelayBroker._spin: perception_obstacle=perception_dict[runner.nid]
DelayContent(k) == perception_dict[runners[k]]

\* DelayBroker._spin: while self.spinning: locations, obs, pds and
\* perception_dict are computed, and time.sleep(self.delay) begins; or the
\* thread ends
DelayCompute ==
    /\ kind = "DelayBroker"
    /\ t # 0
    /\ relayPc[t] = "r_loop"
    /\ IF LoopTest
       THEN /\ nTicks < budget.ticks
            /\ nTicks' = nTicks + 1
            /\ perception_dict' = [n \in {runners[k] : k \in 1..Len(runners)} |->
                                     HeldPerception(IndexOf(n))]
            /\ seen' = loc
            /\ cohort' = {}
            /\ naps' = 0
            /\ waited' = 0
            /\ relayIdx' = [relayIdx EXCEPT ![t] = 1]
            /\ relayPc' = [relayPc EXCEPT ![t] = "r_delay"]
            /\ UNCHANGED relaySeq
       ELSE /\ relayPc' = [relayPc EXCEPT ![t] = "dead"]
            /\ relaySeq' = [relaySeq EXCEPT ![t] = 0]
            /\ UNCHANGED <<perception_dict, seen, cohort, naps, waited, relayIdx,
                           nTicks>>
    /\ UNCHANGED <<cfgVars, spinning, t, delay_thread, message_queue, callerPc,
                   relayOrd, workerPc, held, slept, nSpins, lastPub,
                   tickVars, readVars, detectVars, delay, bcastVars, trialVars>>

\* one step of time passes in time.sleep(self.delay)
DelayTime ==
    /\ t # 0
    /\ relayPc[t] = "r_delay"
    /\ waited < delay
    /\ waited' = waited + 1
    /\ UNCHANGED <<lifeVars, tickVars, readVars, detectVars, delay,
                   perception_dict, seen, cohort, naps, bcastVars, trialVars>>

\* time.sleep(self.delay) returns, not before self.delay has passed
DelayWake ==
    /\ t # 0
    /\ relayPc[t] = "r_delay"
    /\ waited >= delay
    /\ naps' = naps + 1
    /\ relayPc' = [relayPc EXCEPT ![t] = "r_pub"]
    /\ UNCHANGED <<cfgVars, spinning, t, delay_thread, message_queue, callerPc,
                   relaySeq, relayIdx, relayOrd, workerPc, held, slept, nSpins,
                   nTicks, lastPub, tickVars, readVars, detectVars, delay,
                   perception_dict, waited, seen, cohort, bcastVars, trialVars>>

\* DelayBroker._spin: the held snapshot of the next runner is published;
\* publish may raise, and nothing in _spin catches it. After the last runner:
\* header_sequence_num += 1, time.sleep(1/PERCEPTION_FREQUENCY)
DelayPublish ==
    /\ kind = "DelayBroker"
    /\ t # 0
    /\ relayPc[t] = "r_pub"
    /\ \E ok \in BOOLEAN :
         IF ok
         THEN /\ snapshot' = [receiver |-> runners[relayIdx[t]],
                              obs |-> DelayContent(relayIdx[t])]
              /\ cohort' = cohort \cup {runners[relayIdx[t]]}
              /\ IF relayIdx[t] = Len(runners)
                 THEN /\ relayPc' = [relayPc EXCEPT ![t] = "r_loop"]
                      /\ relaySeq' = [relaySeq EXCEPT ![t] = @ + 1]
                      /\ relayIdx' = [relayIdx EXCEPT ![t] = 0]
                 ELSE /\ relayIdx' = [relayIdx EXCEPT ![t] = @ + 1]
                      /\ UNCHANGED <<relayPc, relaySeq>>
         ELSE /\ relayPc' = [relayPc EXCEPT ![t] = "dead"]
              /\ relaySeq' = [relaySeq EXCEPT ![t] = 0]
              /\ relayIdx' = [relayIdx EXCEPT ![t] = 0]
              /\ UNCHANGED <<snapshot, cohort>>
    /\ UNCHANGED <<cfgVars, spinning, t, delay_thread, message_queue, callerPc,
                   relayOrd, workerPc, held, slept, nSpins, nTicks, lastPub,
                   tickIn, readVars, detectVars, delay, perception_dict, waited,
                   seen, naps, bcastVars, trialVars>>

\* a DelayBroker after spin(): the relay thread is at the test of its loop
InitDelay ==
    /\ kind = "DelayBroker"
    /\ runners = [i \in 1..LifeRunners |-> i]
    /\ latency = 0
    /\ budget = [spins |-> 1, ticks |-> DelayTicks]
    /\ spinning = TRUE
    /\ t = 1
    /\ delay_thread = 0
    /\ message_queue = <<>>
    /\ callerPc = "idle"
    /\ relayPc = [i \in 1..1 |-> "r_loop"]
    /\ relaySeq = [i \in 1..1 |-> 0]
    /\ relayIdx = [i \in 1..1 |-> 0]
    /\ relayOrd = [i \in 1..1 |-> 0]
    /\ workerPc = [i \in 1..1 |-> "unborn"]
    /\ held = [i \in 1..1 |-> None]
    /\ slept = [i \in 1..1 |-> 0]
    /\ nSpins = 1
    /\ nTicks = 0
    /\ lastPub = [r \in 1..LifeRunners |-> NoPub]
    /\ loc = [r \in 1..LifeRunners |-> NoLoc]
    /\ pds \in PedChoices
    /\ radius = NoRadius
    /\ p = 0
    /\ sigma = 0
    /\ snapshot = NoSnapshot
    /\ IdleRead
    /\ IdleDetect
    /\ delay \in 0..MaxDelay
    /\ perception_dict = <<>>
    /\ waited = 0
    /\ seen = <<>>
    /\ cohort = {}
    /\ naps = 0
    /\ IdleBroadcast
    /\ IdleTrial

SpecDelay ==
    InitDelay /\ [][
        \/ \E n \in DOMAIN loc, m \in {l \in LocValues \ {NoLoc} : l.x \in {0, MaxPos}} :
             \* between the ticks, or in the tick's time.sleep(self.delay)
             /\ t # 0 /\ relayPc[t] \in {"r_loop", "r_delay"}
             /\ Lcb(n, m)
        \/ DelayCompute
        \/ DelayTime
        \/ DelayWake
        \/ DelayPublish
    ]_vars

\* --------------------------------------------------------------- broadcast
\* a broadcast that reaches the runners only while the relay is spinning
BroadcastRunnersWhenSpinning == IF spinning THEN runners ELSE <<>>

\* broadcast: for runner in self.runners
BroadcastRunners == runners

\* run_scenario calls mbk.broadcast(channel, data): the loop over the runners
\* begins
BroadcastCall ==
    /\ callerPc = "idle"
    /\ callerPc' = "bcast"
    /\ \E data \in 1..MaxPayload : bcastData' = data
    /\ bcastIdx' = 1
    /\ got' = [n \in DOMAIN got |-> <<>>]
    /\ UNCHANGED <<cfgVars, spinning, t, delay_thread, message_queue, relayPc,
                   relaySeq, relayIdx, relayOrd, workerPc, held, slept, nSpins,
                   nTicks, lastPub, tickVars, readVars, detectVars, delayVars, trialVars>>

\* broadcast: runner.container.bridge.publish(channel, data) for the next
\* runner; an exception of publish ends broadcast and run_scenario, its
\* caller, which catches nothing (the call is gone, and its record with it)
BroadcastPublish ==
    /\ callerPc = "bcast"
    /\ bcastIdx <= Len(BroadcastRunners)
    /\ \E ok \in BOOLEAN :
         IF ok
         THEN /\ got' = [got EXCEPT ![BroadcastRunners[bcastIdx]] = Append(@, bcastData)]
              /\ bcastIdx' = bcastIdx + 1
              /\ UNCHANGED <<callerPc, bcastData>>
         ELSE /\ callerPc' = "raised"
              /\ bcastIdx' = 0
              /\ bcastData' = 0
              /\ got' = [n \in DOMAIN got |-> <<>>]
    /\ UNCHANGED <<cfgVars, spinning, t, delay_thread, message_queue, relayPc,
                   relaySeq, relayIdx, relayOrd, workerPc, held, slept, nSpins,
                   nTicks, lastPub, tickVars, readVars, detectVars, delayVars, trialVars>>

\* broadcast: the loop is over and the call returns
BroadcastReturn ==
    /\ callerPc = "bcast"
    /\ bcastIdx > Len(BroadcastRunners)
    /\ bcastIdx' = 0
    /\ bcastData' = 0
    /\ got' = [n \in DOMAIN got |-> <<>>]
    /\ callerPc' = "idle"
    /\ UNCHANGED <<cfgVars, spinning, t, delay_thread, message_queue, relayPc,
                   relaySeq, relayIdx, relayOrd, workerPc, held, slept, nSpins,
                   nTicks, lastPub, tickVars, readVars, detectVars, delayVars, trialVars>>

\* the life cycle of a broker of any class, with the caller broadcasting
\* between its calls of spin() and stop()
SpecBroadcast ==
    Init /\ [][
        \/ Next
        \/ BroadcastCall
        \/ BroadcastPublish
        \/ BroadcastReturn
    ]_vars

\* ------------------------------------------------------- factory and trials
\* time is counted in half iterations of the loop of run_scenario (50 ms):
\* runner_time += 100
TickLen == 2

\* config.SCENARIO_UPPER_LIMIT, a whole number of seconds, so a whole number
\* of iterations
SCENARIO_UPPER_LIMIT == HorizonTicks * TickLen

\* BrokerFactory.set_mode: the tuple of accepted modes
AcceptedModes == {"MessageBroker", "RadiusBroker", "LatencyBroker", "NoiseBroker",
                  "IntermittenceBroker"}

\* the parameter is one its broker is meant for: a probability in [0, 1], a
\* radius, deviation or latency that is not negative
InRange(k, prm) ==
    \/ prm.none
    \/ k = "MessageBroker"
    \/ k = "IntermittenceBroker" /\ prm.v >= 0 /\ prm.v <= ProbScale
    \/ k \in {"RadiusBroker", "LatencyBroker", "NoiseBroker"} /\ prm.v >= 0

\* an exception leaves the call; no caller in the repository catches it
Raise(op, err) == frame' = [frame EXCEPT !.pc = "raised", !.op = op, !.err = err]

nonTrial == <<lifeVars, tickVars, readVars, detectVars, delayVars, bcastVars>>

\* config.BK_PARAM_MAP: the broker types the robustness entry point accepts,
\* each with the parameters of its follow-up trials, in hundredths
BK_PARAM_MAP ==
    [RadiusBroker |-> <<10000, 8000, 6000, 4000, 2000, 1000, 500>>,
     DelayBroker |-> <<20, 40, 80, 100>>,
     NoiseBroker |-> <<50, 100, 200, 400, 600, 800, 1000>>,
     IntermittentBroker |-> <<5, 10, 15, 20, 25, 50>>]

\* set_mode without its test
SetModeUnchecked(tag) ==
    /\ frame.pc = "idle"
    /\ factory' = [factory EXCEPT !.mode = tag]
    /\ UNCHANGED frame
    /\ UNCHANGED <<srunner, bks, nonTrial>>

\* BrokerFactory.set_mode
SetMode(tag) ==
    /\ frame.pc = "idle"
    /\ IF tag \in AcceptedModes
       THEN /\ factory' = [factory EXCEPT !.mode = tag]
            /\ UNCHANGED frame
       ELSE /\ Raise("set_mode", "ValueError")
            /\ UNCHANGED factory
    /\ UNCHANGED <<srunner, bks, nonTrial>>

\* BrokerFactory.set_param
SetParam(v) ==
    /\ frame.pc = "idle"
    /\ factory' = [factory EXCEPT !.param = Param(v)]
    /\ UNCHANGED frame
    /\ UNCHANGED <<srunner, bks, nonTrial>>

\* BrokerFactory.reset
Reset ==
    /\ frame.pc = "idle"
    /\ factory' = [mode |-> NoMode, param |-> NoParam]
    /\ UNCHANGED frame
    /\ UNCHANGED <<srunner, bks, nonTrial>>

\* ScenarioRunner.set_scenario
SetScenario(starts) ==
    /\ frame.pc = "idle"
    /\ srunner' = [srunner EXCEPT !.curr_scenario = starts, !.is_initialized = FALSE]
    /\ UNCHANGED frame
    /\ UNCHANGED <<factory, bks, nonTrial>>

\* the runner object of the last trial is used again for agent i
ReusedRunner(i) ==
    IF i \in DOMAIN srunner.runners
    THEN [srunner.runners[i] EXCEPT !.start_time = srunner.curr_scenario[i],
                                    !.sent = <<>>]
    ELSE [start_time |-> srunner.curr_scenario[i], routing_started |-> FALSE,
          sent |-> <<>>]

\* ApolloRunner(..., start_time=a.start_t) and its initialize():
\* self.routing_started = False. sent: the times at which send_routing ran
NewRunner(i) ==
    [start_time |-> srunner.curr_scenario[i], routing_started |-> FALSE, sent |-> <<>>]

\* ScenarioRunner.init_scenario
InitScenario ==
    /\ frame.pc = "idle"
    /\ IF srunner.curr_scenario = <<>>
       THEN /\ Raise("init_scenario", "AttributeError")
            /\ UNCHANGED srunner
       ELSE /\ srunner' = [srunner EXCEPT
                             !.runners = [i \in DOMAIN srunner.curr_scenario |-> NewRunner(i)],
                             !.is_initialized = TRUE]
            /\ UNCHANGED frame
    /\ UNCHANGED <<factory, bks, nonTrial>>

\* run_scenario is called: len(self.curr_scenario.ad_section.adcs), then
\* if self.curr_scenario is None or not self.is_initialized: return
RunScenario ==
    /\ frame.pc = "idle"
    /\ frame.trials < MaxTrials
    /\ IF srunner.curr_scenario = <<>>
       THEN Raise("run_scenario", "AttributeError")
       ELSE IF ~srunner.is_initialized
            THEN UNCHANGED frame
            ELSE frame' = [NoFrame EXCEPT !.pc = "create", !.trials = frame.trials]
    /\ UNCHANGED <<factory, srunner, bks, nonTrial>>

\* mbk = BrokerFactory().createbk(self.__runners)
Createbk ==
    /\ frame.pc = "create"
    /\ IF factory.mode \in AcceptedModes
       THEN /\ bks' = Append(bks, [kind |-> factory.mode, param |-> factory.param,
                                   spinning |-> FALSE])
            /\ frame' = [frame EXCEPT !.pc = "spin"]
       ELSE /\ Raise("createbk", "ValueError")
            /\ UNCHANGED bks
    /\ UNCHANGED <<factory, srunner, nonTrial>>

\* spin() that starts no thread
SpunNot(b) == b

\* MessageBroker.spin: self.spinning = True, the relay thread started
Spun(b) == [b EXCEPT !.spinning = TRUE]

\* mbk.spin(); runner_time = 0; the detector is made
SpinBroker ==
    /\ frame.pc = "spin"
    /\ bks' = [bks EXCEPT ![Len(bks)] = Spun(bks[Len(bks)])]
    /\ frame' = [frame EXCEPT !.pc = "bcast", !.runner_time = 0, !.ticks = 1]
    /\ UNCHANGED <<factory, srunner, nonTrial>>

\* mbk.broadcast(Topics.TrafficLight, ...): every publish returns, or one raises
TickBroadcast ==
    /\ frame.pc = "bcast"
    /\ \/ frame' = [frame EXCEPT !.pc = "route", !.idx = 1,
                                 !.log = Append(frame.log, "bcast")]
       \/ Raise("broadcast", "PublishError")
    /\ UNCHANGED <<factory, srunner, bks, nonTrial>>

\* should_send_routing without its flag
ShouldSendRoutingAgain(ar, time) == time >= ar.start_time

\* ApolloRunner.should_send_routing
ShouldSendRouting(ar, time) == time >= ar.start_time /\ ~ar.routing_started

\* for ar in self.__runners: if ar.should_send_routing(...): ar.send_routing().
\* send_routing sets routing_started, then publishes, which returns or raises
TickRoute ==
    /\ frame.pc = "route"
    /\ LET ar == srunner.runners[frame.idx]
           on == [frame EXCEPT !.log = Append(frame.log, "route"),
                               !.idx = IF frame.idx = Len(srunner.runners) THEN 0
                                       ELSE frame.idx + 1,
                               !.pc = IF frame.idx = Len(srunner.runners) THEN "detect"
                                      ELSE "route"]
       IN  IF ShouldSendRouting(ar, frame.runner_time)
           THEN /\ srunner' = [srunner EXCEPT
                                 !.runners[frame.idx].routing_started = TRUE,
                                 !.runners[frame.idx].sent =
                                     Append(ar.sent, frame.runner_time)]
                /\ \/ frame' = on
                   \/ Raise("send_routing", "PublishError")
           ELSE /\ frame' = on
                /\ UNCHANGED srunner
    /\ UNCHANGED <<factory, bks, nonTrial>>

\* detector.detect(), whose steps are those of NextDetect
TickDetect ==
    /\ frame.pc = "detect"
    /\ frame' = [frame EXCEPT !.pc = "limit", !.detects = frame.detects + 1,
                              !.log = Append(frame.log, "detect")]
    /\ UNCHANGED <<factory, srunner, bks, nonTrial>>

\* the loop ends one iteration late
LimitReachedLate(time) == time > SCENARIO_UPPER_LIMIT

\* if runner_time / 1000 >= SCENARIO_UPPER_LIMIT: break
LimitReached(time) == time >= SCENARIO_UPPER_LIMIT

TickLimit ==
    /\ frame.pc = "limit"
    /\ frame' = [frame EXCEPT !.pc = IF LimitReached(frame.runner_time) THEN "collect"
                                     ELSE "sleep"]
    /\ UNCHANGED <<factory, srunner, bks, nonTrial>>

\* time.sleep(0.1); runner_time += 100; ar.update_time(runner_time)
TickSleep ==
    /\ frame.pc = "sleep"
    /\ frame' = [frame EXCEPT !.pc = "bcast", !.runner_time = frame.runner_time + TickLen,
                              !.log = <<>>, !.ticks = frame.ticks + 1]
    /\ UNCHANGED <<factory, srunner, bks, nonTrial>>

\* self.min_distances = detector.get_min_distances()
Collect ==
    /\ frame.pc = "collect"
    /\ frame' = [frame EXCEPT !.pc = "stop", !.produced = TRUE]
    /\ UNCHANGED <<factory, srunner, bks, nonTrial>>

\* mbk.stop(): self.spinning = False, the threads joined
StopBroker ==
    /\ frame.pc = "stop"
    /\ bks' = [bks EXCEPT ![Len(bks)].spinning = FALSE]
    /\ frame' = [frame EXCEPT !.pc = "stop_runners"]
    /\ UNCHANGED <<factory, srunner, nonTrial>>

\* runner.stop('MAIN') for every runner; self.is_initialized = False; return.
\* The broker is referenced no more
Finish ==
    /\ frame.pc = "stop_runners"
    /\ srunner' = [srunner EXCEPT !.is_initialized = FALSE]
    /\ bks' = SubSeq(bks, 1, Len(bks) - 1)
    /\ frame' = [NoFrame EXCEPT !.produced = frame.produced,
                                !.trials = frame.trials + 1]
    /\ UNCHANGED <<factory, nonTrial>>

\* the main thread goes on in run_scenario
RunStep ==
    \/ Createbk
    \/ SpinBroker
    \/ TickBroadcast
    \/ TickRoute
    \/ TickDetect
    \/ TickLimit
    \/ TickSleep
    \/ Collect
    \/ StopBroker
    \/ Finish

InitTrial ==
    /\ kind = "MessageBroker"
    /\ runners = [i \in 1..LifeRunners |-> i]
    /\ IdleLife(0)
    /\ lastPub = [r \in 1..LifeRunners |-> NoPub]
    /\ loc = [r \in 1..LifeRunners |-> NoLoc]
    /\ pds = <<>>
    /\ radius = NoRadius
    /\ p = 0
    /\ sigma = 0
    /\ snapshot = NoSnapshot
    /\ IdleRead
    /\ IdleDetect
    /\ IdleDelay
    /\ IdleBroadcast
    /\ IdleTrial

\* the main thread is not starved, and time.sleep and every call return
SpecTrial ==
    InitTrial /\ [][
        \/ \E tag \in {"MessageBroker", "LatencyBroker"} : SetMode(tag)
        \/ \E starts \in [1..LifeRunners ->
                             {0, 1, SCENARIO_UPPER_LIMIT, SCENARIO_UPPER_LIMIT + 1}] :
             SetScenario(starts)
        \/ InitScenario
        \/ RunScenario
        \/ RunStep
    ]_vars /\ WF_vars(RunStep)

\* the factory set and reset by its callers between trials of one scenario
SpecFactory ==
    InitTrial /\ [][
        \/ \E tag \in AcceptedModes \cup DOMAIN BK_PARAM_MAP \cup {"Bogus"} : SetMode(tag)
        \/ \E v \in (0 - 1)..(ProbScale + 1) : SetParam(v)
        \/ Reset
        \/ SetScenario([i \in 1..LifeRunners |-> 0])
        \/ InitScenario
        \/ RunScenario
        \/ RunStep
    ]_vars

\* ------------------------------------------------------------ traffic lights
\* the exclusion keeps the offset of its source
GenerateExclusionUnshifted(c) ==
    [duration |-> <<c.duration[3] - c.duration[2], c.duration[2],
                    c.duration[1] + c.duration[2]>>,
     delta_t |-> c.delta_t]

\* TLConfig.generate_exclusion (duration in order g, y, r)
GenerateExclusion(c) ==
    [duration |-> <<c.duration[3] - c.duration[2], c.duration[2],
                    c.duration[1] + c.duration[2]>>,
     delta_t |-> c.delta_t + c.duration[3]]

\* TLConfig.color
Color(c, time) ==
    LET total == c.duration[1] + c.duration[2] + c.duration[3]
    IN  IF total = 0 THEN "GREEN"
        ELSE LET mod == (time + c.delta_t) % total
             IN  IF mod < c.duration[1] THEN "GREEN"
                 ELSE IF mod < c.duration[1] + c.duration[2] THEN "YELLOW"
                 ELSE "RED"

\* no broker thread, no call of the detector, no trial: what the main thread
\* computes on its own is all that happens
NothingRuns(k) ==
    /\ kind = k
    /\ runners = [i \in 1..LifeRunners |-> i]
    /\ IdleLife(0)
    /\ lastPub = [r \in 1..LifeRunners |-> NoPub]
    /\ loc = [r \in 1..LifeRunners |-> NoLoc]
    /\ pds = <<>>
    /\ radius = NoRadius
    /\ p = 0
    /\ sigma = 0
    /\ snapshot = NoSnapshot
    /\ IdleRead
    /\ IdleDetect
    /\ IdleDelay
    /\ IdleBroadcast
    /\ factory = [mode |-> NoMode, param |-> NoParam]
    /\ srunner = [curr_scenario |-> <<>>, is_initialized |-> FALSE, runners |-> <<>>]
    /\ bks = <<>>

\* a signal whose red is no shorter than its yellow and that is not all
\* zero (TLConfig.get_one: green 5-10 s, yellow 2 s, red 3-5 s, offset 0-10 s),
\* no exclusion generated yet
InitLight ==
    /\ NothingRuns("MessageBroker")
    /\ \E g \in 0..MaxDuration, y \in 0..MaxDuration, r \in 0..MaxDuration,
          d \in 0..MaxOffset :
          /\ r >= y
          /\ g + y + r > 0
          /\ frame = [pc |-> "get_one", src |-> [duration |-> <<g, y, r>>, delta_t |-> d],
                      exc |-> [duration |-> <<0, 0, 0>>, delta_t |-> 0],
                      time |-> 0, shown |-> <<>>]

\* generate_config / mut_tl: tl.generate_exclusion(sig) for an NE signal
LightExclude ==
    /\ frame.pc = "get_one"
    /\ frame' = [frame EXCEPT !.pc = "detection", !.exc = GenerateExclusion(frame.src)]
    /\ UNCHANGED <<factory, srunner, bks, nonTrial>>

\* TrafficSection.detection(curr_t): cl = k.color(curr_t) for both signals, at
\* the times of one period and one more
LightDetect ==
    /\ frame.pc = "detection"
    /\ frame.time <= 3 * MaxDuration
    /\ frame' = [frame EXCEPT !.shown = <<Color(frame.src, frame.time),
                                         Color(frame.exc, frame.time)>>,
                              !.time = frame.time + 1]
    /\ UNCHANGED <<factory, srunner, bks, nonTrial>>

SpecLight == InitLight /\ [][LightExclude \/ LightDetect]_vars

\* -------------------------------------------------------------- properties
\* stop() has returned, or was never needed, and spin() was not called since
Stopped == ~spinning /\ callerPc \in {"idle", "stop"}

\* C1: once stop() has returned, no snapshot is published to any runner
\* (until the broker is spun again), for every broker variant
C1_NoPublishAfterStop == [][Stopped => lastPub' = lastPub]_vars

\* stop() has returned and a delay worker of an earlier spin() is still
\* delivering a message
C1_Witness ==
    /\ Stopped /\ callerPc = "idle"
    /\ \E i \in Threads : workerPc[i] = "w_sleep" /\ i # delay_thread

\* C2: when LatencyBroker.stop() has returned, the queue holds no perception
\* message and every delay worker has terminated
C2_QueueDrainedWorkerDone ==
    (kind = "LatencyBroker" /\ Stopped) =>
        /\ \A k \in 1..Len(message_queue) : message_queue[k].none
        /\ \A i \in Threads : ~WorkerAlive(i)

\* stop() has returned, every thread has ended, and a perception message
\* that was never published is in the queue
C2_Witness ==
    /\ kind = "LatencyBroker" /\ Stopped /\ callerPc = "idle"
    /\ \A i \in Threads : ~RelayAlive(i) /\ ~WorkerAlive(i)
    /\ \E k \in 1..Len(message_queue) : ~message_queue[k].none

\* C3: the step the caller takes inside stop() on a broker that is not
\* spinning returns at once: it joins nothing and changes no field, thread or
\* queue of the broker; and a stop() that returns leaves the broker not
\* spinning, so that the stop() after it is such a call
C3_StopIdempotent ==
    [][/\ (callerPc = "stop" /\ ~spinning /\ callerPc' # callerPc) =>
             /\ callerPc' = "idle"
             /\ UNCHANGED <<cfgVars, otherVars, spinning, t, delay_thread,
                             message_queue, relayPc, relaySeq, relayIdx, relayOrd,
                             workerPc, held, slept, nSpins, nTicks, lastPub>>
       /\ (callerPc \notin {"idle", "spin"} /\ callerPc' = "idle") => ~spinning']_vars

C3_Witness == callerPc = "stop" /\ ~spinning /\ nSpins > 0

\* C4: while spinning is false no relay thread begins a tick and no delay
\* worker begins a delivery (each ends after the tick or delivery it is in),
\* and a stop() that found the broker spinning returns
C4_NoNewTickAndStopReturns ==
    /\ [][~spinning =>
            \A i \in Threads :
                /\ ~(relayPc[i] = "r_loop" /\ relayPc'[i] \notin {"r_loop", "dead"})
                /\ ~(workerPc[i] = "w_loop" /\ workerPc'[i] \notin {"w_loop", "dead"})]_vars
    /\ ((callerPc \in {"stop_worker", "stop_join_worker", "stop_join_t"}) ~> callerPc = "idle")

\* stop() waits for a worker that is delivering, with more messages queued
C4_Witness ==
    /\ callerPc = "stop_join_worker"
    /\ \E i \in Threads : workerPc[i] = "w_sleep"
    /\ \E k \in 1..Len(message_queue) : ~message_queue[k].none

\* C5: at any time at most one relay thread and at most one delay worker of
\* the broker is running
C5_OneRelayOneWorker ==
    /\ Cardinality({i \in Threads : RelayAlive(i)}) <= 1
    /\ Cardinality({i \in Threads : WorkerAlive(i)}) <= 1

\* C10: every snapshot the delay worker publishes to a receiver was put after
\* the one published to it before (FIFO), and is published no earlier than
\* the latency after it was put
C10_FifoAndLatency ==
    [][\A i \in Threads :
          (workerPc[i] = "w_sleep" /\ workerPc'[i] = "w_loop" /\ lastPub' # lastPub) =>
              /\ lastPub'[held[i].nid].ord > lastPub[held[i].nid].ord
              /\ held[i].age >= latency]_vars

\* C12: a snapshot published to a receiver carries a sequence number greater
\* than that of the snapshot published to it before by the same broker run
\* (the same relay thread), in every broker variant
C12_SeqStrictlyIncreasing ==
    [][\A r \in DOMAIN lastPub :
          (lastPub'[r] # lastPub[r] /\ lastPub[r].run = lastPub'[r].run) =>
              lastPub'[r].seq > lastPub[r].seq]_vars

\* a delay worker holds, for a runner, a snapshot of the run that built the
\* one the runner got last, with a smaller sequence number
C12_Witness ==
    \E i \in Threads :
        /\ workerPc[i] = "w_sleep"
        /\ lastPub[held[i].nid].run = held[i].run
        /\ lastPub[held[i].nid].seq > held[i].seq

\* C15: a publish that raises does not end the relay: a relay thread that is
\* publishing the snapshots of a tick goes on to the next runner and the next
\* tick, in every broker variant
C15_PublishFailureSurvived ==
    [][\A i \in Threads : relayPc[i] = "r_pub" => relayPc'[i] # "dead"]_vars

\* the relay thread has ended although the broker is spinning
C15_Witness == spinning /\ t # 0 /\ relayPc[t] = "dead"

\* a delay worker is about to publish to a runner a snapshot of an earlier
\* tick than the one the runner got last
C10_Witness ==
    \E i \in Threads :
        /\ workerPc[i] = "w_sleep"
        /\ lastPub[held[i].nid].ord > held[i].ord

\* the nids of the broker's runners, the receiver's place in self.runners, and
\* the places of the snapshot that hold the obstacle of runner n
Nids == {runners[k] : k \in 1..Len(runners)}

Places(n) == {j \in 1..Len(snapshot.obs) :
                ~snapshot.obs[j].ped /\ snapshot.obs[j].id = n}

AgentPlaces == {j \in 1..Len(snapshot.obs) : ~snapshot.obs[j].ped}

\* footprints one vehicle length long at the positions the runners report
Gap(a, b) ==
    LET d == IF loc[a].x >= loc[b].x THEN loc[a].x - loc[b].x
             ELSE loc[b].x - loc[a].x
    IN  IF d > VehLen THEN d - VehLen ELSE 0

\* C6: the snapshot MessageBroker publishes to a receiver holds exactly one
\* obstacle for every other runner that is authoritative, and none for the
\* receiver, for a runner that is not authoritative or for anyone else
C6_IdentityExactlyOne ==
    (kind = "MessageBroker" /\ snapshot.receiver # 0) =>
        /\ \A j \in AgentPlaces : snapshot.obs[j].id \in Nids
        /\ \A n \in Nids :
              Cardinality(Places(n)) =
                  IF n # snapshot.receiver /\ Authoritative(n) THEN 1 ELSE 0

\* a receiver that is not authoritative gets the obstacles of two others
C6_Witness ==
    /\ kind = "MessageBroker" /\ snapshot.receiver # 0
    /\ ~Authoritative(snapshot.receiver)
    /\ Cardinality(AgentPlaces) = 2

\* C7: under RadiusBroker(r), for an authoritative receiver R and another
\* authoritative runner i, i's obstacle is in R's snapshot iff the distance
\* between their footprints is <= r (r = 0: they touch or overlap)
C7_RadiusIffWithin ==
    (kind = "RadiusBroker" /\ snapshot.receiver # 0
        /\ Authoritative(snapshot.receiver)) =>
        \A i \in Nids \ {snapshot.receiver} :
            Authoritative(i) =>
                ((Places(i) # {}) <=>
                    (radius.inf \/ Gap(snapshot.receiver, i) <= radius.r))

\* radius 0: one runner touches the receiver and is seen, another is away
\* from it and is not
C7_Witness ==
    /\ kind = "RadiusBroker" /\ snapshot.receiver # 0
    /\ ~radius.inf /\ radius.r = 0
    /\ Authoritative(snapshot.receiver)
    /\ \E i, j \in Nids \ {snapshot.receiver} :
          /\ Authoritative(i) /\ Authoritative(j)
          /\ Places(i) # {} /\ Places(j) = {}
          /\ loc[i].x # loc[snapshot.receiver].x

\* C8: RadiusBroker with radius = infinity publishes to every receiver the
\* obstacle sequence MessageBroker publishes for the same localizations
C8_RadiusInfIsIdentity ==
    (kind = "RadiusBroker" /\ radius.inf /\ snapshot.receiver # 0) =>
        snapshot.obs = MessagePerception(IndexOf(snapshot.receiver))

\* the receiver has no authoritative localization, another runner has: the
\* snapshot holds no obstacle of a runner, MessageBroker's holds one
C8_Witness ==
    /\ kind = "RadiusBroker" /\ radius.inf /\ snapshot.receiver # 0
    /\ ~Authoritative(snapshot.receiver)
    /\ AgentPlaces = {}
    /\ Len(MessagePerception(IndexOf(snapshot.receiver))) > Len(pds)

\* C13: every localization message the relay converts into an obstacle has
\* module_name 'SimControl', whatever the callbacks store meanwhile
C13_OnlyAuthoritativeConverted ==
    \A n \in DOMAIN locations : locations[n].module = "SimControl"

\* a snapshot holds an obstacle built from a message that is not SimControl's
C13_Witness ==
    /\ snapshot.receiver # 0
    /\ \E n \in DOMAIN locations :
          /\ n # snapshot.receiver
          /\ locations[n].module # "SimControl"
          /\ Places(n) # {}

\* C14: in every broker variant a receiver's snapshot ends with the
\* pedestrian obstacles of the tick, all of them, unchanged and once
C14_PedestriansAlwaysAppended ==
    snapshot.receiver # 0 =>
        /\ Len(snapshot.obs) >= Len(pds)
        /\ SubSeq(snapshot.obs, Len(snapshot.obs) - Len(pds) + 1,
                  Len(snapshot.obs)) = pds
        /\ Cardinality(({j \in 1..Len(snapshot.obs) : snapshot.obs[j].ped})) = Len(pds)

\* drop probability 1, another runner is authoritative, and the snapshot
\* holds the pedestrian and nothing else
C14_Witness ==
    /\ kind = "IntermittenceBroker" /\ p = ProbScale
    /\ snapshot.receiver # 0 /\ pds # <<>>
    /\ \E n \in Nids \ {snapshot.receiver} : Authoritative(n)
    /\ snapshot.obs = pds

\* C9: IntermittenceBroker with p = 0 publishes the obstacle sequence
\* MessageBroker publishes, and with p = 1 no obstacle of a runner
C9_IntermittenceExtremes ==
    (kind = "IntermittenceBroker" /\ snapshot.receiver # 0) =>
        /\ p = 0 => snapshot.obs = MessagePerception(IndexOf(snapshot.receiver))
        /\ p = ProbScale => snapshot.obs = pds

\* p = 0 and two other runners are authoritative
C9_Witness ==
    /\ kind = "IntermittenceBroker" /\ snapshot.receiver # 0
    /\ p = 0
    /\ Cardinality(AgentPlaces) = 2

\* a step in which detect() updates the map and returns
DetectReturns == readPc = "read" /\ readPc' = "idle" /\ detected'

\* the distance between the footprints of the two runners of a pair, from the
\* positions in the messages the call read, in half vehicle lengths
Computed(pr) ==
    LET a == locations[runners[pr[1]]].x
        b == locations[runners[pr[2]]].x
        d == IF a >= b THEN a - b ELSE b - a
    IN  IF d > VehLen THEN 2 * (d - VehLen) ELSE 0

BothRead(pr) ==
    runners[pr[1]] \in DOMAIN locations /\ runners[pr[2]] \in DOMAIN locations

BothPassed(pr) == runners[pr[1]] \in passed /\ runners[pr[2]] \in passed

\* C17: the map of minimum distances has exactly one entry for every
\* unordered pair of runners and no other key, before and after every
\* detect(), and every entry is +inf until the first detect() returns
C17_OneEntryPerPair ==
    /\ \A k \in DOMAIN min_distances :
          k \in (1..Len(runners)) \X (1..Len(runners)) /\ k[1] # k[2]
    /\ \A i \in 1..Len(runners) : \A j \in 1..Len(runners) :
          i < j => Cardinality({k \in DOMAIN min_distances : {k[1], k[2]} = {i, j}}) = 1
    /\ ~detected => \A k \in DOMAIN min_distances : min_distances[k] = Inf

\* detect() has returned with a distance recorded for a pair
C17_Witness ==
    detected /\ readPc = "idle" /\ \E k \in DOMAIN min_distances : ~min_distances[k].inf

\* C18: the stored minimum of a pair never grows; a detect() that computes a
\* distance for the pair stores the smaller of the stored and the computed
\* one, which is never negative
C18_MinimumNonIncreasing ==
    [][\A pr \in DOMAIN min_distances :
          LET old == min_distances[pr]
              new == min_distances'[pr]
          IN  /\ pr \in DOMAIN min_distances'
              /\ new.d >= 0
              /\ ~old.inf => (~new.inf /\ new.d <= old.d)
              /\ (DetectReturns /\ BothRead(pr)) =>
                    /\ ~new.inf
                    /\ new.d = IF old.inf \/ Computed(pr) < old.d
                               THEN Computed(pr) ELSE old.d]_vars

\* detect() is about to update a pair whose computed distance is larger than
\* the stored one
C18_Witness ==
    /\ readPc = "read"
    /\ \E pr \in DOMAIN min_distances :
          BothRead(pr) /\ ~min_distances[pr].inf /\ Computed(pr) > min_distances[pr].d

\* C19: a detect() leaves the entry of every pair unchanged whose two runners
\* did not both pass the SimControl test in that call
C19_PartialPairUntouched ==
    [][DetectReturns =>
          \A pr \in DOMAIN min_distances :
              ~BothPassed(pr) =>
                  pr \in DOMAIN min_distances' /\ min_distances'[pr] = min_distances[pr]]_vars

\* detect() is about to return with a runner of a pair skipped, the pair
\* holding a distance of an earlier call
C19_Witness ==
    /\ readPc = "read"
    /\ \E pr \in DOMAIN min_distances : ~BothPassed(pr) /\ ~min_distances[pr].inf

\* C20: a pair whose two runners never passed the SimControl test in the
\* same detect() is reported as +inf by get_min_distances()
C20_NeverCoReportedIsInf ==
    \A pr \in Pairs :
        pr \notin coReported => (pr \in DOMAIN GetMinDistances /\ GetMinDistances[pr] = Inf)

\* detect() has returned, once with only one runner of a pair passing the
\* test, and the pair was never reported together
C20_Witness ==
    /\ detected
    /\ readPc = "idle"
    /\ \E pr \in Pairs :
          /\ pr \notin coReported
          /\ loc[runners[pr[1]]].module = "SimControl"
          /\ loc[runners[pr[2]]].module # "SimControl"

\* the runner's localization was authoritative when the tick was computed
SeenAuthoritative(n) == seen[n] # NoLoc /\ seen[n].module = "SimControl"

\* the runners a held snapshot for receiver r shows
SeenBy(r) == IF SeenAuthoritative(r)
             THEN {m \in Nids \ {r} : SeenAuthoritative(m)}
             ELSE {}

\* the message s shows the state of the moment the tick was computed
FromSeen(s) ==
    /\ \A j \in 1..Len(s.obs) :
          s.obs[j].ped \/ (/\ s.obs[j].id \in SeenBy(s.receiver)
                           /\ s.obs[j].x = seen[s.obs[j].id].x)
    /\ \A m \in SeenBy(s.receiver) :
          Cardinality({j \in 1..Len(s.obs) : ~s.obs[j].ped /\ s.obs[j].id = m}) = 1
    /\ Cardinality({j \in 1..Len(s.obs) : s.obs[j].ped}) = Len(pds)

\* C11: under DelayBroker a snapshot is published only after the delay has
\* passed since its tick was computed, after the tick's one sleep, and shows
\* the state of the moment of the computation; the next tick is computed only
\* when every runner has got its snapshot of this one
C11_DelayedCohort ==
    [][/\ (cohort' # cohort /\ cohort' # {}) =>
             /\ waited >= delay
             /\ naps = 1
             /\ snapshot'.receiver \in cohort' \ cohort
             /\ FromSeen(snapshot')
       /\ (nTicks' # nTicks) => (nTicks = 0 \/ cohort = Nids)]_vars

\* the whole cohort of the second tick was published after a delay during
\* which a localization changed, and the last snapshot is not what the
\* localizations of now would give
C11_Witness ==
    /\ kind = "DelayBroker"
    /\ nTicks = DelayTicks
    /\ delay > 0
    /\ cohort = Nids
    /\ snapshot.receiver # 0
    /\ seen # loc
    /\ snapshot.obs # HeldPerception(IndexOf(snapshot.receiver))

\* C16: a broadcast publishes its data, unchanged and once, to the runners in
\* list order, and when it returns every runner has got exactly that data
\* once, for every class of broker and whether or not the relay is spinning
C16_BroadcastReachesAll ==
    [][\A n \in Nids :
          /\ (callerPc = "bcast" /\ IndexOf(n) < bcastIdx) => got[n] = <<bcastData>>
          /\ (callerPc = "bcast" /\ IndexOf(n) >= bcastIdx) => got[n] = <<>>
          /\ (callerPc = "bcast" /\ callerPc' = "idle") => got[n] = <<bcastData>>]_vars

\* a broadcast is about to return on a broker that is not spinning and is not
\* a plain MessageBroker, every runner having got the data
C16_Witness ==
    /\ callerPc = "bcast"
    /\ bcastIdx > Len(runners)
    /\ bcastData # 0
    /\ ~spinning
    /\ kind # "MessageBroker"
    /\ \A n \in Nids : got[n] = <<bcastData>>

\* C21: a detect() that finds the footprints of two runners overlapping
\* (distance 0) leaves 0 as the pair's stored minimum, and a stored 0 is
\* never changed again
C21_OverlapIsKept ==
    [][\A pr \in DOMAIN min_distances :
          /\ (DetectReturns /\ BothRead(pr) /\ Computed(pr) = 0) =>
                min_distances'[pr] = Num(0)
          /\ min_distances[pr] = Num(0) => min_distances'[pr] = Num(0)]_vars

\* a later detect() is about to return with the two runners apart, the pair
\* holding 0 from an earlier overlap
C21_Witness ==
    /\ readPc = "read"
    /\ \E pr \in DOMAIN min_distances :
          BothRead(pr) /\ min_distances[pr] = Num(0) /\ Computed(pr) > 0

\* C22: the result of the monitor is a function of the runners' own
\* localizations only: under every broker kind and parameter, and whatever
\* the broker relayed, get_polygon_dist stores the localization field of the
\* runner itself, and detect() turns the stored minima and the distances of
\* those localizations into the same new minima
C22_MonitorIgnoresBroker ==
    [][/\ (readPc = "store" /\ readPc' # "store") =>
             locations'[runners[readIdx]] = loc[runners[readIdx]]
       /\ DetectReturns =>
             \A pr \in Pairs :
                min_distances'[pr] =
                   IF BothRead(pr)
                   THEN IF min_distances[pr].inf \/ Computed(pr) < min_distances[pr].d
                        THEN Num(Computed(pr))
                        ELSE min_distances[pr]
                   ELSE min_distances[pr]]_vars

\* detect() is about to return with both runners read, after a broker with a
\* fault relayed a snapshot that differs from the fault-free one
C22_Witness ==
    /\ readPc = "read"
    /\ kind # "MessageBroker"
    /\ snapshot # NoSnapshot
    /\ snapshot.obs # MessagePerception(IndexOf(snapshot.receiver))
    /\ \E pr \in Pairs : BothRead(pr) /\ Computed(pr) > 0

\* the main thread is in an iteration of the loop of run_scenario
TickPcs == {"bcast", "route", "detect", "limit", "sleep"}

\* C23: the scenario clock starts at 0, changes only by one iteration's
\* length at a time and never goes back; the loop is left at the first
\* iteration whose time has reached the limit, and at no other; and every
\* call of run_scenario ends, after at most HorizonTicks + 1 iterations
C23_ClockRunsToLimit ==
    /\ [][/\ (frame.pc = "spin" /\ frame'.pc = "bcast") => frame'.runner_time = 0
          /\ (frame.pc \in TickPcs /\ frame'.pc # "raised") =>
                IF frame.pc = "sleep"
                THEN frame'.runner_time = frame.runner_time + TickLen
                ELSE frame'.runner_time = frame.runner_time
          /\ frame.pc = "limit" =>
                (frame'.pc = "collect" <=>
                    /\ frame.runner_time >= SCENARIO_UPPER_LIMIT
                    /\ frame.runner_time - TickLen < SCENARIO_UPPER_LIMIT)
          /\ frame'.pc = "collect" => frame.pc \in {"limit", "collect"}]_vars
    /\ [](frame.pc \in TickPcs =>
            /\ frame.runner_time = (frame.ticks - 1) * TickLen
            /\ frame.ticks <= HorizonTicks + 1)
    /\ (frame.pc \notin {"idle", "raised"} ~> frame.pc \in {"idle", "raised"})

\* the loop has just been left, at the limit
C23_Witness ==
    /\ frame.pc = "collect"
    /\ frame.runner_time = SCENARIO_UPPER_LIMIT
    /\ frame.ticks = HorizonTicks + 1

\* C24: send_routing runs at most once for a runner, in the first iteration
\* whose time has reached the runner's start_time; when the loop has been
\* left every runner whose start_time is within the limit has been routed
\* once, and a runner whose start_time is beyond the limit never is
C24_RoutedOnceAtStartTime ==
    \A i \in DOMAIN srunner.runners :
       LET ar == srunner.runners[i]
       IN  /\ Len(ar.sent) <= 1
           /\ ar.sent # <<>> => ar.sent[1] = ((ar.start_time + TickLen - 1) \div TickLen) * TickLen
           /\ ar.routing_started <=> ar.sent # <<>>
           /\ ar.start_time > SCENARIO_UPPER_LIMIT => ar.sent = <<>>
           /\ (frame.pc \in {"collect", "stop", "stop_runners"} /\ ar.start_time <= SCENARIO_UPPER_LIMIT) => Len(ar.sent) = 1

\* the loop has been left: one runner that started within the first
\* iteration was routed in the second, one that starts too late never
C24_Witness ==
    /\ frame.pc = "collect"
    /\ \E i, j \in DOMAIN srunner.runners :
          /\ srunner.runners[i].start_time = 1
          /\ srunner.runners[i].sent = <<TickLen>>
          /\ srunner.runners[j].start_time > SCENARIO_UPPER_LIMIT
          /\ srunner.runners[j].sent = <<>>

\* C25: whatever trials were run before on the same ScenarioRunner, a trial
\* begins with routing_started false for every runner, and routes every
\* runner by its own start_time
C25_NoFlagCarriedOver ==
    /\ (frame.pc \in {"create", "spin"} \/ (frame.pc = "bcast" /\ frame.runner_time = 0)) =>
          \A i \in DOMAIN srunner.runners :
             ~srunner.runners[i].routing_started /\ srunner.runners[i].sent = <<>>
    /\ frame.pc = "collect" =>
          \A i \in DOMAIN srunner.runners :
             Len(srunner.runners[i].sent) =
                IF srunner.runners[i].start_time <= SCENARIO_UPPER_LIMIT THEN 1 ELSE 0

\* a trial after a finished one has left its loop, a runner routed in it
C25_Witness ==
    /\ frame.trials >= 1
    /\ frame.pc = "collect"
    /\ \E i \in DOMAIN srunner.runners : srunner.runners[i].sent # <<>>

\* what an iteration does, in order
TickOrder == <<"bcast">> \o [i \in 1..Len(srunner.runners) |-> "route"] \o <<"detect">>

\* C26: the broker is made and its relay started before the first
\* iteration and spins in every state in which the clock runs; an iteration
\* that runs to its end, the last one (at the limit) too, broadcasts the
\* traffic lights, then checks the routing of every runner, then calls
\* detect() once; the relay is stopped only after the last iteration
C26_OrderOfATrial ==
    /\ [](/\ frame.pc \in TickPcs \cup {"collect"} => (bks # <<>> /\ bks[Len(bks)].spinning)
          /\ frame.pc \in TickPcs => (Len(frame.log) <= Len(TickOrder) /\ frame.log = SubSeq(TickOrder, 1, Len(frame.log)))
          /\ frame.pc \in {"limit", "sleep", "collect"} =>
                (frame.log = TickOrder /\ frame.detects = frame.ticks)
          /\ frame.pc \in {"bcast", "route", "detect"} => frame.detects = frame.ticks - 1
          /\ frame.pc = "collect" =>
                (frame.detects = HorizonTicks + 1 /\ frame.runner_time = SCENARIO_UPPER_LIMIT))
    /\ [][\A i \in DOMAIN bks :
             (bks[i].spinning /\ (i \notin DOMAIN bks' \/ ~bks'[i].spinning)) =>
                (frame.pc = "stop" /\ frame.detects = HorizonTicks + 1)]_vars

\* the last iteration has called detect() and the relay still spins
C26_Witness ==
    /\ frame.pc = "limit"
    /\ frame.runner_time = SCENARIO_UPPER_LIMIT
    /\ frame.log = TickOrder
    /\ bks # <<>>
    /\ bks[Len(bks)].spinning

\* C27: a publish that fails in an iteration of the loop (in broadcast or
\* in send_routing) never ends run_scenario by an exception
C27_PublishFailureNeverAborts == ~(frame.pc = "raised" /\ frame.err = "PublishError")

\* a publish of broadcast failed before the limit: run_scenario was left by
\* the exception, with no map of minimum distances produced
C27_Witness ==
    /\ frame.pc = "raised"
    /\ frame.op = "broadcast"
    /\ frame.runner_time < SCENARIO_UPPER_LIMIT
    /\ ~frame.produced

\* C28: whenever the main thread is outside run_scenario, no broker that a
\* call of run_scenario started is spinning
C28_TornDownOnEveryExit ==
    frame.pc \in {"idle", "raised"} => \A i \in DOMAIN bks : ~bks[i].spinning

\* run_scenario was left by an exception of send_routing, its relay spinning
C28_Witness ==
    /\ frame.pc = "raised"
    /\ frame.op = "send_routing"
    /\ bks # <<>>
    /\ bks[Len(bks)].spinning

\* C29: the mode of the factory is always None or an accepted mode;
\* set_mode that raises leaves the factory as it was; createbk with no mode
\* set raises ValueError and no broker is made or started
C29_UnknownModeFailsFast ==
    /\ [](/\ factory.mode \in AcceptedModes \cup {NoMode}
          /\ \A i \in DOMAIN bks : bks[i].kind \in AcceptedModes)
    /\ [][/\ (frame.pc = "idle" /\ frame'.pc = "raised" /\ frame'.op = "set_mode") =>
                (factory' = factory /\ frame'.err = "ValueError")
          /\ (frame.pc = "create" /\ factory.mode = NoMode) =>
                /\ frame'.pc = "raised"
                /\ frame'.err = "ValueError"
                /\ bks' = bks]_vars

\* set_mode has raised with a mode set before, which is still set
C29_Witness ==
    /\ frame.pc = "raised"
    /\ frame.op = "set_mode"
    /\ factory.mode \in AcceptedModes

\* C30: no broker spins with a parameter outside the range it is meant for
C30_NoSpinOutOfRange ==
    \A i \in DOMAIN bks : bks[i].spinning => InRange(bks[i].kind, bks[i].param)

\* an IntermittenceBroker spins with a drop probability above 1
C30_Witness ==
    \E i \in DOMAIN bks :
       /\ bks[i].spinning
       /\ bks[i].kind = "IntermittenceBroker"
       /\ ~bks[i].param.none
       /\ bks[i].param.v > ProbScale

\* C31: every broker class can be chosen: set_mode with the name of any of
\* the six classes does not raise
C31_EveryVariantSelectable ==
    [][\A k \in Kinds : SetMode(k) => frame'.pc # "raised"]_vars

\* set_mode has raised with no mode set before: the first choice was refused
C31_Witness ==
    /\ frame.pc = "raised"
    /\ frame.op = "set_mode"
    /\ frame.err = "ValueError"
    /\ factory.mode = NoMode

\* C32: a NoiseBroker whose deviation is 0 relays to every receiver exactly
\* the obstacles (ids, positions, and so footprints) a MessageBroker relays
\* for the same localizations
C32_ZeroSigmaIsIdentity ==
    (kind = "NoiseBroker" /\ sigma = 0 /\ snapshot # NoSnapshot) =>
        snapshot.obs = MessagePerception(IndexOf(snapshot.receiver))

\* a NoiseBroker with deviation 0 has relayed the obstacles of two other
\* runners that are not at the same place
C32_Witness ==
    /\ kind = "NoiseBroker"
    /\ sigma = 0
    /\ snapshot # NoSnapshot
    /\ \E i, j \in 1..Len(snapshot.obs) :
          /\ ~snapshot.obs[i].ped
          /\ ~snapshot.obs[j].ped
          /\ snapshot.obs[i].x # snapshot.obs[j].x

C34_NotReadyReturnsQuietly ==
    [][/\ (frame.pc = "idle" /\ (srunner.curr_scenario = <<>> \/ ~srunner.is_initialized)) =>
             /\ frame'.pc # "create"
             /\ ~(frame'.pc = "raised" /\ frame'.op = "run_scenario")
             /\ bks' = bks
       /\ (frame.pc = "stop_runners" /\ frame'.pc = "idle") => ~srunner'.is_initialized]_vars

\* run_scenario was called on a new ScenarioRunner and was left by an exception
C34_Witness ==
    /\ frame.pc = "raised"
    /\ frame.op = "run_scenario"
    /\ frame.err = "AttributeError"
    /\ srunner.curr_scenario = <<>>
    /\ bks = <<>>

\* C35: what a DelayBroker or LatencyBroker computes for a receiver in a
\* tick is the obstacle list a MessageBroker computes for the same
\* localizations, also for a receiver without a localization of the simulator
C35_HeldContentIsIdentity ==
    (kind \in {"DelayBroker", "LatencyBroker"} /\ snapshot # NoSnapshot) =>
        snapshot.obs = MessagePerception(IndexOf(snapshot.receiver))

\* a LatencyBroker computed no vehicle for a receiver without a localization
\* of the simulator, while another runner has one
C35_Witness ==
    /\ kind = "LatencyBroker"
    /\ snapshot # NoSnapshot
    /\ ~Authoritative(snapshot.receiver)
    /\ snapshot.obs = pds
    /\ \E n \in DOMAIN loc : n # snapshot.receiver /\ Authoritative(n)

\* ------------------------------------------- the latency queue against time
\* 1/PERCEPTION_FREQUENCY, the sleep that ends a tick of the relay, in the
\* unit the latency is counted in
TickPeriod == 2

\* a LatencyBroker that spins: the relay is at the test of its loop, the
\* delay worker at its get, the queue is empty; any number of runners, any
\* latency up to the sleep of a tick
InitQueue ==
    /\ NothingRuns("LatencyBroker")
    /\ \E n \in 1..QueueRunners, l \in 0..TickPeriod :
         frame = [pc |-> "r_loop", runners |-> [i \in 1..n |-> i], latency |-> l,
                  message_queue |-> <<>>, idx |-> 0, header_sequence_num |-> 0,
                  relay_slept |-> 0, worker |-> "w_get", slept |-> 0,
                  published |-> 0]

\* LatencyBroker._spin: a tick begins: the snapshots are computed
QueueLoop ==
    /\ frame.pc = "r_loop"
    /\ frame.header_sequence_num < QueueTicks
    /\ frame' = [frame EXCEPT !.pc = "r_put", !.idx = 1]
    /\ UNCHANGED <<factory, srunner, bks, nonTrial>>

\* LatencyBroker._spin: self.message_queue.put((runner.nid, perception_obs,
\* header_sequence_num)) for the next runner; after the last one
\* header_sequence_num += 1 and time.sleep(1/PERCEPTION_FREQUENCY) begins
QueuePut ==
    /\ frame.pc = "r_put"
    /\ frame' = [frame EXCEPT
                   !.message_queue = Append(@, frame.header_sequence_num),
                   !.idx = IF @ = Len(frame.runners) THEN 0 ELSE @ + 1,
                   !.pc = IF frame.idx = Len(frame.runners) THEN "r_sleep" ELSE @,
                   !.header_sequence_num =
                       IF frame.idx = Len(frame.runners) THEN @ + 1 ELSE @,
                   !.relay_slept = 0]
    /\ UNCHANGED <<factory, srunner, bks, nonTrial>>

\* LatencyBroker._spin: time.sleep(1/PERCEPTION_FREQUENCY) has returned
QueueWake ==
    /\ frame.pc = "r_sleep"
    /\ frame.relay_slept >= TickPeriod
    /\ frame' = [frame EXCEPT !.pc = "r_loop"]
    /\ UNCHANGED <<factory, srunner, bks, nonTrial>>

\* _delay_worker: message_data = self.message_queue.get(timeout=0.1) returns a
\* message and time.sleep(self.latency) begins (on an empty queue the get
\* times out and is called again)
QueueGet ==
    /\ frame.worker = "w_get"
    /\ frame.message_queue # <<>>
    /\ frame' = [frame EXCEPT !.message_queue = Tail(@), !.worker = "w_sleep",
                              !.slept = 0]
    /\ UNCHANGED <<factory, srunner, bks, nonTrial>>

\* _delay_worker: time.sleep(self.latency) has returned, the message is
\* published and the worker is back at its get
QueuePublish ==
    /\ frame.worker = "w_sleep"
    /\ frame.slept >= frame.latency
    /\ frame' = [frame EXCEPT !.worker = "w_get", !.published = @ + 1]
    /\ UNCHANGED <<factory, srunner, bks, nonTrial>>

\* one unit of time: only the sleeps take time, so time goes on when each
\* thread is inside a sleep that has not ended, or is the worker blocked in
\* its get on an empty queue
QueueTime ==
    /\ frame.pc = "r_sleep" /\ frame.relay_slept < TickPeriod
    /\ \/ frame.worker = "w_sleep" /\ frame.slept < frame.latency
       \/ frame.worker = "w_get" /\ frame.message_queue = <<>>
    /\ frame' = [frame EXCEPT
                   !.relay_slept = @ + 1,
                   !.slept = IF frame.worker = "w_sleep" THEN @ + 1 ELSE @]
    /\ UNCHANGED <<factory, srunner, bks, nonTrial>>

SpecQueue ==
    InitQueue /\ [][
        \/ QueueLoop
        \/ QueuePut
        \/ QueueWake
        \/ QueueGet
        \/ QueuePublish
        \/ QueueTime
    ]_vars

\* C36: with a latency no longer than the sleep of a tick, the queue never
\* holds more messages than two ticks put into it, whatever the number of
\* runners
C36_QueueStaysBounded ==
    (frame.pc \in {"r_loop", "r_put", "r_sleep"} /\ frame.latency <= TickPeriod)
        => Len(frame.message_queue) <= 2 * Len(frame.runners)

\* the worker has published while the relay went through several ticks, and
\* the latency is within the sleep of a tick
C36_Witness ==
    /\ frame.pc \in {"r_loop", "r_put", "r_sleep"}
    /\ frame.latency > 0
    /\ frame.latency <= TickPeriod
    /\ Len(frame.runners) >= 2
    /\ frame.header_sequence_num >= 2
    /\ frame.published >= 2

\* the life cycle of the brokers that publish inside the tick, over
\* several ticks, while no publish raises: a relay thread inside its publish
\* loop does not end there
InitQuiet == InitLife(RespinSpins, RespinTicks) /\ kind # "LatencyBroker"

SpecQuiet ==
    InitQuiet /\ [][
        \/ Spin
        \/ SpinCall
        \/ SpinReturn
        \/ StopCall
        \/ StopBody
        \/ StopJoinRelay
        \/ \E i \in Threads : RelayLoop(i)
        \/ \E i \in Threads : RelayDelay(i)
        \/ \E i \in Threads : RelayPublish(i) /\ relayPc'[i] # "dead"
    ]_vars

\* C37: a broker that publishes inside the tick, no publish raising: each
\* runner gets the sequence numbers of a spin() from 0 on without a gap, and
\* when stop() has returned every runner has got the same snapshot last, so
\* the same number of them
C37_WholeTicksAtStop ==
    /\ []((kind # "LatencyBroker" /\ Stopped) =>
            \A r \in DOMAIN lastPub : lastPub[r] = lastPub[1])
    /\ [][kind # "LatencyBroker" =>
            \A r \in DOMAIN lastPub :
                lastPub'[r] # lastPub[r] =>
                    lastPub'[r].seq = IF lastPub'[r].run = lastPub[r].run
                                      THEN lastPub[r].seq + 1 ELSE 0]_vars

\* stop() has returned after two whole ticks of one spin()
C37_Witness ==
    /\ kind # "LatencyBroker"
    /\ Stopped /\ callerPc = "idle"
    /\ nSpins >= 1
    /\ \A r \in DOMAIN lastPub : lastPub[r].seq = 1

\* C38: eval_stage_2 with any type of BK_PARAM_MAP: after the source trial
\* with MessageBroker, set_mode(bk_type) does not raise, so that the
\* follow-up trials run
C38_AcceptedTypesRunFollowUps ==
    [][\A bk_type \in DOMAIN BK_PARAM_MAP :
          (factory.mode = "MessageBroker" /\ frame.trials >= 1 /\ SetMode(bk_type))
              => frame'.pc # "raised"]_vars

\* the source trial has run with MessageBroker and the set_mode after it has
\* raised: no follow-up trial runs
C38_Witness ==
    /\ frame.pc = "raised"
    /\ frame.op = "set_mode"
    /\ frame.err = "ValueError"
    /\ factory.mode = "MessageBroker"
    /\ frame.trials >= 1

\* ------------------------------------------- mutation of the traffic section
\* mut_tl: for tl_config in ind.tls: if tl_config.tid in eq_list or
\* tl_config.tid in ne_list: ind.tls.remove(tl_config), the list iterator
\* being at place i of the list as it is now: after a removal the element
\* that moves into place i is passed over
RECURSIVE RemoveRelated(_, _, _)
RemoveRelated(tls, i, related) ==
    IF i > Len(tls) THEN tls
    ELSE IF tls[i] \in related
         THEN RemoveRelated(SubSeq(tls, 1, i - 1) \o SubSeq(tls, i + 1, Len(tls)),
                            i + 1, related)
         ELSE RemoveRelated(tls, i + 1, related)

\* a set of signal ids as the list get_eq() or get_ne() yields
RECURSIVE AsList(_)
AsList(S) == IF S = {} THEN <<>>
             ELSE LET x == CHOOSE y \in S : \A z \in S : y <= z
                  IN <<x>> \o AsList(S \ {x})

\* mut_tl(ind) for the drawn index and the signals the map relates to the
\* signal drawn, the ids of the configs in the order of ind.tls
MutTl(tls, index, eq_list, ne_list) ==
    LET mut_id == tls[index]
        popped == SubSeq(tls, 1, index - 1) \o SubSeq(tls, index + 1, Len(tls))
    IN RemoveRelated(popped, 1, eq_list \cup ne_list)
           \o <<mut_id>> \o AsList(eq_list) \o AsList(ne_list)

\* a traffic section with every signal of the map once, in any order
\* (generate_config shuffles, cx_tl reorders), handed to mut_tl_section
InitMut ==
    /\ NothingRuns("MessageBroker")
    /\ \E tls \in [1..MapSignals -> 1..MapSignals] :
         /\ \A i, j \in 1..MapSignals : tls[i] = tls[j] => i = j
         /\ frame = [pc |-> "mut_tl_section", tls |-> tls, mut_pb |-> 0, count |-> 0]

\* mut_tl_section: mut_pb = random(), in tenths
MutDraw ==
    /\ frame.pc = "mut_tl_section"
    /\ \E mut_pb \in 0..9 :
         frame' = [frame EXCEPT !.pc = "if_0.3", !.mut_pb = mut_pb]
    /\ UNCHANGED <<factory, srunner, bks, nonTrial>>

\* mut_tl_section: if mut_pb < 0.3: (two calls), then if mut_pb < 0.6: (one
\* call), then return ind
MutTest ==
    /\ \/ /\ frame.pc = "if_0.3"
          /\ frame' = [frame EXCEPT !.pc = IF frame.mut_pb < 3 THEN "call_1" ELSE "if_0.6"]
       \/ /\ frame.pc = "if_0.6"
          /\ frame' = [frame EXCEPT !.pc = IF frame.mut_pb < 6 THEN "call_3" ELSE "return"]
    /\ UNCHANGED <<factory, srunner, bks, nonTrial>>

\* mut_tl_section: mut_tl(ind), with index = randint(0, len(ind.tls) - 1) and
\* the EQ and NE signals the map gives for the signal at index
MutCall ==
    /\ frame.pc \in {"call_1", "call_2", "call_3"}
    /\ \E index \in 1..Len(frame.tls) :
         \E eq_list \in SUBSET ((1..MapSignals) \ {frame.tls[index]}) :
           \E ne_list \in SUBSET (((1..MapSignals) \ {frame.tls[index]}) \ eq_list) :
             frame' = [frame EXCEPT
                         !.tls = MutTl(frame.tls, index, eq_list, ne_list),
                         !.count = @ + 1,
                         !.pc = CASE frame.pc = "call_1" -> "call_2"
                                  [] frame.pc = "call_2" -> "if_0.6"
                                  [] OTHER -> "return"]
    /\ UNCHANGED <<factory, srunner, bks, nonTrial>>

SpecMut == InitMut /\ [][MutDraw \/ MutTest \/ MutCall]_vars

\* C39: mut_tl on a section that holds each signal id once leaves a section
\* with the same ids, each once
C39_SectionStaysWellFormed ==
    [][(/\ frame.pc \in {"call_1", "call_2", "call_3"}
        /\ frame'.count = frame.count + 1
        /\ Len(frame.tls) = MapSignals
        /\ {frame.tls[k] : k \in 1..Len(frame.tls)} = 1..MapSignals)
       => /\ Len(frame'.tls) = MapSignals
          /\ {frame'.tls[k] : k \in 1..Len(frame'.tls)} = 1..MapSignals]_vars

\* one mut_tl has run on the section handed in and a signal id is in the
\* section twice
C39_Witness ==
    /\ frame.pc \in {"call_2", "return"}
    /\ frame.count = 1
    /\ \E i, j \in 1..Len(frame.tls) : i # j /\ frame.tls[i] = frame.tls[j]

\* C40: a call of mut_tl_section applies mut_tl twice for a draw below 0.3,
\* once for a draw in [0.3, 0.6), and not at all for a draw from 0.6 on
C40_MutationCount ==
    frame.pc = "return" =>
        frame.count = (IF frame.mut_pb < 3 THEN 2 ELSE IF frame.mut_pb < 6 THEN 1 ELSE 0)

\* mut_tl_section has returned after three applications of mut_tl
C40_Witness ==
    /\ frame.pc = "return"
    /\ frame.mut_pb < 3
    /\ frame.count = 3

====
